---- MODULE Spec2Model ----
(***************************************************************************)
(* A model of the preconfirmation bidding agent: the control loop of       *)
(* main (block subscription, reconnect, per-block transaction build and    *)
(* bid), Bidder.SendBid with its response stream, and the fire-and-forget  *)
(* writers of data/bid.json and data/response.json.                        *)
(***************************************************************************)
EXTENDS Integers, Sequences, FiniteSets, TLC

\* ------------------------------------------------------------------ bounds
\* Heads the chain produces during a run.
MaxHeads == 2
\* Header subscriptions the endpoint grants during a run.
MaxSubs == 2
\* Requests (dials, subscriptions) the endpoint refuses during a run of the
\* control loop.
MaxOutage == 1
\* Acceptance records the bidding service issues to a direct caller.
MaxRecords == 2
\* Acceptance records the bidding service issues during a run of the control
\* loop.
MaxLoopRecords == 1
\* SendBid calls made by a direct caller of the Bidder API.
MaxCalls == 1
\* Largest list handed to SendBid by a direct caller.
MaxLen == 1
\* Largest base fee read from the latest header by a builder call.
MaxBaseFee == 100
\* Largest minimum blob fee computed from the latest header.
MaxBlobFee == 1000
\* Largest blob count handed to ExecuteBlobTransaction.
MaxBlobs == 2
\* Calls of DepositIntoWindow and WithdrawFromWindow made by a caller.
MaxWindowCalls == 3
\* Largest minimum deposit the BidderRegistry contract reports.
MaxMinDeposit == 2
\* Block numbers a bundle is sent for: up to two hex digits.
MaxBlkNum == 17
\* Heads the chain produces while the commitment listener runs.
MaxListenHeads == 3
\* Logs and errors a log subscription of the listener delivers.
MaxLogs == 2

\* ------------------------------------------------------- program constants
\* for i := 0; i < 10; i++ in reconnectWSClient
RetryBudget == 10
\* connectRPCClientWithRetries(rpcEndpoint, 5, timeout) in main
RpcMaxRetries == 5
\* time.Sleep(10 * time.Duration(math.Pow(2, float64(i)))), in nanoseconds
BaseDelay == 10
\* 36 * time.Second in milliseconds
DecayMs == 36000

\* --------------------------------------------------------------- encodings
\* Strings are sequences of one-character strings.
Prefix0x == <<"0", "x">>

HexChars == <<"0", "1", "2", "3", "4", "5", "6", "7",
              "8", "9", "a", "b", "c", "d", "e", "f">>

HexByte(b) == <<HexChars[(b \div 16) + 1], HexChars[(b % 16) + 1]>>

RECURSIVE EncodeToString(_)
EncodeToString(bytes) ==
    IF bytes = <<>> THEN <<>>
    ELSE HexByte(Head(bytes)) \o EncodeToString(Tail(bytes))

TrimPrefix(s, prefix) ==
    IF Len(s) >= Len(prefix) /\ SubSeq(s, 1, Len(prefix)) = prefix
    THEN SubSeq(s, Len(prefix) + 1, Len(s))
    ELSE s

RECURSIVE Sprintf(_)
Sprintf(n) ==
    IF n < 10 THEN <<HexChars[n + 1]>>
    ELSE Sprintf(n \div 10) \o <<HexChars[(n % 10) + 1]>>

\* --------------------------------------------------------------- data
\* A *types.Transaction as the control loop uses it: the nonce and the fee
\* cap. The tip cap, on which the two SelfETHTransfer definitions differ, is
\* read by no step of the loop but the logging; GasTipCap below gives it.
NilTx == [isNil |-> TRUE, nonce |-> 0, gasFeeCap |-> 0]

Tx(nonce, gasFeeCap) == [isNil |-> FALSE, nonce |-> nonce, gasFeeCap |-> gasFeeCap]

\* The typed-transaction envelope: the type byte 0x02 and the payload.
MarshalBinary(tx) ==
    <<2, tx.nonce, (tx.gasFeeCap \div 256) % 256, tx.gasFeeCap % 256>>

\* tx.Hash().String(): "0x" and the hex digits of the digest.
HashString(tx) ==
    Prefix0x \o EncodeToString(<<(tx.nonce * 31 + tx.gasFeeCap * 7 + 171) % 256>>)

\* ------------------------------------------------------------- SendBundle
\* hexutil.EncodeUint64(i): "0x" and the hex digits without leading zeros.
RECURSIVE HexDigitsOf(_)
HexDigitsOf(n) ==
    IF n < 16 THEN <<HexChars[n + 1]>>
    ELSE HexDigitsOf(n \div 16) \o <<HexChars[(n % 16) + 1]>>

EncodeUint64(n) == Prefix0x \o HexDigitsOf(n)

\* hexutil.Encode(b): "0x" and the hex of the bytes.
Encode(bytes) == Prefix0x \o EncodeToString(bytes)

\* The eth_sendBundle request SendBundle builds.
FlashbotsPayload(binary, blkNum) ==
    [Jsonrpc |-> "2.0",
     Method |-> "eth_sendBundle",
     Params |-> <<[txs |-> <<Encode(binary)>>, blockNumber |-> EncodeUint64(blkNum)]>>,
     ID |-> 1]

\* An endpoint net/url parses, and one it rejects ("invalid port").
GoodUrl == "http://rpc"

BadPortUrl == "http://rpc:port"

RpcUrls == {GoodUrl, BadPortUrl}

\* http.NewRequest("POST", RPCURL, body): it fails when the URL does not
\* parse, and then the request it returns is nil.
NewRequest(url, body) ==
    IF url = BadPortUrl
    THEN [req |-> [isNil |-> TRUE, url |-> "", body |-> <<>>],
          err |-> "invalid port"]
    ELSE [req |-> [isNil |-> FALSE, url |-> url, body |-> body], err |-> "nil"]

\* Response bodies of the relay.
Bodies == {"", "{\"result\":\"0xab\"}", "{\"error\":\"rejected\"}"}

\* What the steps of one SendBundle call meet: whether MarshalBinary,
\* json.Marshal, httpClient.Do and ioutil.ReadAll succeed, and the body sent.
BundleOutcomes ==
    [marshal : BOOLEAN, json : BOOLEAN, do : BOOLEAN, read : BOOLEAN, body : Bodies]

\* SendBundle(RPCURL, signedTx, blkNum): the value and the error returned,
\* the steps taken, the request posted; panicked when req.Header.Add is
\* reached with the nil request of a failed http.NewRequest.
SendBundleSteps(RPCURL, tx, blkNum, o) ==
    LET payload == FlashbotsPayload(MarshalBinary(tx), blkNum)
        r == NewRequest(RPCURL, payload)
        Result(ret, e, panicked, steps, posted) ==
            [ret |-> ret, err |-> e, panicked |-> panicked, steps |-> steps,
             posted |-> posted]
    IN IF ~o.marshal
       THEN Result("", "MarshalBinary", FALSE, <<"MarshalBinary">>, <<>>)
       ELSE IF ~o.json
       THEN Result("", "json.Marshal", FALSE, <<"MarshalBinary", "json.Marshal">>, <<>>)
       ELSE IF r.req.isNil
       THEN Result("", "nil", TRUE,
                   <<"MarshalBinary", "json.Marshal", "NewRequest", "Header.Add">>,
                   <<>>)
       ELSE IF ~o.do
       THEN Result("", "Do", FALSE,
                   <<"MarshalBinary", "json.Marshal", "NewRequest", "Header.Add",
                     "Do">>, <<>>)
       ELSE IF ~o.read
       THEN Result("", "ReadAll", FALSE,
                   <<"MarshalBinary", "json.Marshal", "NewRequest", "Header.Add",
                     "Do", "ReadAll">>, <<r.req>>)
       ELSE Result(o.body, "nil", FALSE,
                   <<"MarshalBinary", "json.Marshal", "NewRequest", "Header.Add",
                     "Do", "ReadAll">>, <<r.req>>)

NoBundleResult ==
    [ret |-> "", err |-> "nil", panicked |-> FALSE, steps |-> <<>>, posted |-> <<>>]

\* maxPriorityFee := new(big.Int).Mul(baseFee, big.NewInt(2))
maxPriorityFee(baseFee) == baseFee * 2

\* maxFeePerGas := new(big.Int).Mul(maxPriorityFee, big.NewInt(2))
maxFeePerGas(baseFee) == maxPriorityFee(baseFee) * 2

\* The base fee in the header of block n: it moves with every block.
BaseFeeAt(n) == 100 + 12 * n

NoRequest ==
    [Amount |-> <<>>, BlockNumber |-> 0, DecayStartTimestamp |-> 0,
     DecayEndTimestamp |-> 0, TxHashes |-> <<>>, RawTransactions |-> <<>>]

NoReturn == [stream |-> FALSE, err |-> "nil"]

\* No builder call is being followed.
NoCall == [op |-> "none"]

\* Bid amounts the random policy draws, in units of 10^16 wei (0.07 .. 0.2 ETH).
Amounts == {7}

\* Clock readings, in milliseconds.
Times == {1000}

\* Pending nonces of the account.
Nonces == {0}

\* strconv.ParseUint(value, 10, 64): decimal digits only, no sign, not empty.
IsDigit(c) == \E d \in 1 .. 10 : HexChars[d] = c

DigitValue(c) == CHOOSE d \in 0 .. 9 : HexChars[d + 1] = c

RECURSIVE ParseUint(_)
ParseUint(s) ==
    IF s = <<>> THEN 0
    ELSE ParseUint(SubSeq(s, 1, Len(s) - 1)) * 10 + DigitValue(s[Len(s)])

\* parseUintEnvVar(name, value)
parseUintEnvVar(value) ==
    IF value # <<>> /\ \A k \in 1 .. Len(value) : IsDigit(value[k])
    THEN [value |-> ParseUint(value), err |-> "nil"]
    ELSE [value |-> 0, err |-> "must be a positive integer"]

\* Values of the OFFSET environment variable; <<>> is unset or empty.
OffsetEnvs == {<<>>, <<"0">>, <<"1">>, <<"-", "1">>, <<"x">>}

\* main: var offset uint64 = 1; if offsetEnv != "" { offset, err =
\* parseUintEnvVar("OFFSET", offsetEnv); log.Crit on err }
ConfigOffset(offsetEnv) ==
    IF offsetEnv = <<>> THEN [value |-> 1, err |-> "nil"]
    ELSE parseUintEnvVar(offsetEnv)

\* The offsets main runs with: those of the OFFSET values it does not reject.
Offsets ==
    {ConfigOffset(e).value : e \in {x \in OffsetEnvs : ConfigOffset(x).err = "nil"}}

\* strconv.ParseBool(value)
TrueStrings ==
    {<<"1">>, <<"t">>, <<"T">>, <<"T", "R", "U", "E">>, <<"t", "r", "u", "e">>,
     <<"T", "r", "u", "e">>}

FalseStrings ==
    {<<"0">>, <<"f">>, <<"F">>, <<"F", "A", "L", "S", "E">>,
     <<"f", "a", "l", "s", "e">>, <<"F", "a", "l", "s", "e">>}

ParseBool(value) ==
    IF value \in TrueStrings THEN [value |-> TRUE, err |-> "nil"]
    ELSE IF value \in FalseStrings THEN [value |-> FALSE, err |-> "nil"]
    ELSE [value |-> FALSE, err |-> "invalid syntax"]

\* parseBoolEnvVar(name, value)
parseBoolEnvVar(value) ==
    IF ParseBool(value).err # "nil"
    THEN [value |-> FALSE, err |-> "must be true or false"]
    ELSE [value |-> ParseBool(value).value, err |-> "nil"]

\* Values of the USE_PAYLOAD environment variable; <<>> is unset or empty.
UsePayloadEnvs ==
    {<<>>, <<"t", "r", "u", "e">>, <<"f", "a", "l", "s", "e">>, <<"y", "e", "s">>}

\* main: usePayload := true; if usePayloadEnv != "" { usePayload, err =
\* parseBoolEnvVar("USE_PAYLOAD", usePayloadEnv); log.Crit on err }
ConfigUsePayload(usePayloadEnv) ==
    IF usePayloadEnv = <<>> THEN [value |-> TRUE, err |-> "nil"]
    ELSE parseBoolEnvVar(usePayloadEnv)

\* The environment main starts in: whether the .env file loads, and the
\* variables main reads. An endpoint or a key is "" when it is not set.
Envs ==
    [dotenv : BOOLEAN,
     USE_PAYLOAD : UsePayloadEnvs,
     RPC_ENDPOINT : {""} \cup RpcUrls,
     WS_ENDPOINT : {"", "ws://node"},
     PRIVATE_KEY : {"", "key", "not hex"},
     OFFSET : OffsetEnvs]

\* The RPC endpoint check is left out.
ConfigSkipsRpcEndpoint(e) ==
    LET up == ConfigUsePayload(e.USE_PAYLOAD)
        off == ConfigOffset(e.OFFSET)
        Fatal(msg) == [usePayload |-> up.value, offset |-> 1, err |-> msg]
    IN IF ~e.dotenv THEN Fatal("Error loading .env file")
       ELSE IF up.err # "nil" THEN Fatal("Invalid USE_PAYLOAD value")
       ELSE IF e.WS_ENDPOINT = "" THEN Fatal("WS_ENDPOINT is required")
       ELSE IF e.PRIVATE_KEY = "" THEN Fatal("PRIVATE_KEY is required")
       ELSE IF off.err # "nil" THEN Fatal("Invalid OFFSET value")
       ELSE [usePayload |-> up.value, offset |-> off.value, err |-> "nil"]

\* main from godotenv.Load() to the log of the configuration values: the
\* first check that fails ends the process with log.Crit.
Config(e) ==
    LET up == ConfigUsePayload(e.USE_PAYLOAD)
        off == ConfigOffset(e.OFFSET)
        Fatal(msg) == [usePayload |-> up.value, offset |-> 1, err |-> msg]
    IN IF ~e.dotenv THEN Fatal("Error loading .env file")
       ELSE IF up.err # "nil" THEN Fatal("Invalid USE_PAYLOAD value")
       ELSE IF ~up.value /\ e.RPC_ENDPOINT = "" THEN Fatal("RPC_ENDPOINT is required")
       ELSE IF e.WS_ENDPOINT = "" THEN Fatal("WS_ENDPOINT is required")
       ELSE IF e.PRIVATE_KEY = "" THEN Fatal("PRIVATE_KEY is required")
       ELSE IF off.err # "nil" THEN Fatal("Invalid OFFSET value")
       ELSE [usePayload |-> up.value, offset |-> off.value, err |-> "nil"]

\* An environment main reads the configuration (up, off) from.
EnvOf(up, off) ==
    [dotenv |-> TRUE,
     USE_PAYLOAD |-> IF up THEN <<>> ELSE <<"f", "a", "l", "s", "e">>,
     RPC_ENDPOINT |-> IF up THEN "" ELSE GoodUrl,
     WS_ENDPOINT |-> "ws://node",
     PRIVATE_KEY |-> "key",
     OFFSET |-> IF off = 1 THEN <<>> ELSE Sprintf(off)]

\* connectRPCClientWithRetries before its call: the loop counter, the dials
\* made, the sleeps taken, and the client returned ("none" before the return).
NoRpc == [maxRetries |-> 0, i |-> 0, attempts |-> 0, sleeps |-> <<>>, client |-> "none"]

RECURSIVE Pow2(_)
Pow2(n) == IF n = 0 THEN 1 ELSE 2 * Pow2(n - 1)

\* The sleep after the failed dial of pass n, in nanoseconds.
Backoff(n) == BaseDelay * Pow2(n)

\* ethclient.DialContext parses the endpoint before it dials: an endpoint
\* that does not parse connects on no attempt.
Dials(rpcEndpoint) == rpcEndpoint # BadPortUrl

\* What main's call of connectRPCClientWithRetries leaves when every dial
\* fails: nil, after which main logs the error and goes on.
RpcUnreachable ==
    [maxRetries |-> RpcMaxRetries, i |-> RpcMaxRetries, attempts |-> RpcMaxRetries,
     sleeps |-> [k \in 1 .. RpcMaxRetries |-> Backoff(k - 1)], client |-> "nil"]

\* What main's call of connectRPCClientWithRetries leaves when the first dial
\* connects.
RpcConnected ==
    [maxRetries |-> RpcMaxRetries, i |-> 0, attempts |-> 1, sleeps |-> <<>>,
     client |-> "connected"]

VARIABLES
    env,          \* the environment of the process
    rpc,          \* connectRPCClientWithRetries: its locals and its result
    bidderClient, \* main's bidderClient: 0 before NewBidderClient, 1 after
    callBudget,   \* SendBid calls the direct caller makes during the run
    ioErrors,     \* file operations of the two writers that have failed
    relayed,      \* the SendBundle calls made: transaction and block number
    usePayload,   \* USE_PAYLOAD
    offset,       \* OFFSET
    horizon,      \* number of the last block the chain produces during the run
    lib,          \* a call of a transaction builder of package eth, and its result
    chainHead,    \* number of the latest block of the chain
    timerFired,   \* the run-duration timer has fired and timer.C holds a value
    subs,         \* header subscriptions made on the shared headers channel
    sub,          \* main's sub: index into subs, 0 before the first one
    wsClient,     \* main's wsClient: id of a dialed connection, 0 before
    pc,           \* position of the main goroutine
    header,       \* the header taken from the channel, 0 when none
    signedTx,     \* main's signedTx
    blockNumber,  \* main's blockNumber
    err,          \* main's err inside the header case
    i,            \* reconnectWSClient's loop counter
    rClient,      \* reconnectWSClient's wsClient
    dials,        \* dial attempts made in the current connect/reconnect episode
    outage,       \* dials and subscriptions the endpoint will still refuse
    delivered,    \* headers received by the control loop, in order
    served,       \* bid requests received by the bidding service, in order
    bpc,          \* position inside SendBid: idle, recv, ret
    bidRequest,   \* SendBid's bidRequest
    responses,    \* SendBid's responses
    streamed,     \* records the service has put on the current stream
    streamEnd,    \* how the current stream ended: open, eof, error
    bidRet,       \* what SendBid returned
    calls,        \* SendBid calls whose stream was opened
    quota,        \* acceptance records the service will still issue
    failedCalls,  \* calls whose stream failed with a transport error
    apiCalls,     \* SendBid calls made by the direct caller
    reqTasks,     \* running saveBidRequest goroutines
    respTasks,    \* running saveBidResponses goroutines
    bidLog,       \* content of data/bid.json
    respLog       \* content of data/response.json

cfgVars == <<usePayload, offset, env, rpc, bidderClient, callBudget>>
envVars == <<chainHead, timerFired, outage>>
watchVars == <<subs, sub, wsClient>>
mainVars == <<header, signedTx, blockNumber, err>>
rcVars == <<i, rClient, dials>>
bidVars == <<bpc, bidRequest, responses, streamed, streamEnd, bidRet,
             calls, quota, failedCalls>>
persistVars == <<reqTasks, respTasks, bidLog, respLog, ioErrors>>

vars == <<env, rpc, bidderClient, callBudget, ioErrors, relayed, usePayload, offset, horizon, lib, chainHead, timerFired, subs, sub, wsClient,
          pc, header, signedTx, blockNumber, err, i, rClient, dials,
          outage,
          delivered, served, bpc, bidRequest, responses, streamed, streamEnd,
          bidRet, calls, quota, failedCalls, apiCalls, reqTasks, respTasks,
          bidLog, respLog>>

\* The process runs until main returns, panics or log.Crit exits.
Alive == pc \notin {"stopped", "crashed", "fatal"}

\* What main's startup leaves when it gets as far as dialing the WS endpoint
\* with the configuration (usePayload, offset). The RPC client is used by
\* nothing after the startup: SendBundle posts to rpcEndpoint itself.
StartedOn(rpcEndpoint) ==
    /\ env = [EnvOf(usePayload, offset) EXCEPT
                !.RPC_ENDPOINT = IF usePayload THEN "" ELSE rpcEndpoint]
    /\ rpc = IF usePayload THEN NoRpc
             ELSE IF Dials(rpcEndpoint) THEN RpcConnected ELSE RpcUnreachable
    /\ bidderClient = 1

Started == StartedOn(GoodUrl)

InitCommon ==
    /\ chainHead = 0
    /\ timerFired = FALSE
    /\ subs = <<>>
    /\ sub = 0
    /\ wsClient = 0
    /\ header = 0
    /\ signedTx = NilTx
    /\ blockNumber = 0
    /\ err = "nil"
    /\ i = 0
    /\ rClient = 0
    /\ dials = 0
    /\ delivered = <<>>
    /\ served = <<>>
    /\ bpc = "idle"
    /\ bidRequest = NoRequest
    /\ responses = <<>>
    /\ streamed = <<>>
    /\ streamEnd = "open"
    /\ bidRet = NoReturn
    /\ calls = 0
    /\ failedCalls = {}
    /\ apiCalls = 0
    /\ reqTasks = <<>>
    /\ respTasks = <<>>
    /\ bidLog = <<>>
    /\ respLog = <<>>
    /\ ioErrors = 0
    /\ relayed = <<>>

\* main after the configuration is read, about to dial the WS endpoint.
Init ==
    /\ usePayload \in BOOLEAN
    /\ offset \in Offsets
    /\ \E rpcEndpoint \in RpcUrls : StartedOn(rpcEndpoint)
    /\ callBudget = 0
    /\ horizon = MaxHeads
    /\ lib = NoCall
    /\ pc = "connect"
    /\ outage = MaxOutage
    /\ quota = MaxLoopRecords
    /\ InitCommon

\* ------------------------------------------------- chain and subscriptions
\* wsClient.SubscribeNewHead(ctx, headers): a subscription feeding the shared
\* headers channel from connection c.
\* after: the failed passes of reconnectWSClient before the one that made it.
NewSub(c, n) == [client |-> c, live |-> TRUE, buf |-> <<>>, err |-> FALSE, after |-> n]

LiveSubs == {s \in 1 .. Len(subs) : subs[s].live}

\* The chain produces a block; every live subscription queues its header.
NewHead ==
    /\ Alive
    /\ chainHead < horizon
    /\ chainHead' = chainHead + 1
    /\ subs' = [s \in 1 .. Len(subs) |->
                  IF subs[s].live
                  THEN [subs[s] EXCEPT !.buf = Append(@, chainHead + 1)]
                  ELSE subs[s]]
    /\ UNCHANGED <<cfgVars, relayed, horizon, lib, timerFired, outage, sub, wsClient, pc,
                   mainVars, rcVars, delivered, served, bidVars, apiCalls,
                   persistVars>>

\* A subscription ends with an error: it stops forwarding headers and puts
\* the error on its Err() channel. Only a subscription the endpoint can still
\* replace fails, so that the reconnect is never held up by MaxSubs.
SubFail ==
    /\ Alive
    /\ Len(subs) < MaxSubs
    /\ \E s \in LiveSubs :
         subs' = [subs EXCEPT ![s] = [@ EXCEPT !.live = FALSE,
                                               !.buf = <<>>,
                                               !.err = TRUE]]
    /\ UNCHANGED <<cfgVars, relayed, horizon, lib, envVars, sub, wsClient, pc, mainVars,
                   rcVars, delivered, served, bidVars, apiCalls, persistVars>>

\* time.NewTimer(24 * 14 * time.Hour) fires.
TimerFire ==
    /\ Alive
    /\ pc # "api"
    /\ ~timerFired
    /\ timerFired' = TRUE
    /\ UNCHANGED <<cfgVars, relayed, horizon, lib, chainHead, outage, watchVars, pc, mainVars,
                   rcVars, delivered, served, bidVars, apiCalls, persistVars>>

\* ------------------------------------------------------ connect, reconnect
\* One dial of connectWSClient. A failed dial sleeps 10 s and calls
\* connectWSClient again; connectWSClient returns only a connected client.
\* Connections are numbered by the reconnect episode that dialed them.
connectWSClient(ok) ==
    /\ ~ok => outage > 0
    /\ outage' = IF ok THEN outage ELSE outage - 1
    /\ dials' = dials + 1

\* main: wsClient, err := connectWSClient(wsEndpoint)
Connect ==
    /\ pc = "connect"
    /\ \E ok \in BOOLEAN :
         /\ connectWSClient(ok)
         /\ wsClient' = IF ok THEN 1 ELSE wsClient
         /\ pc' = IF ok THEN "subscribe" ELSE pc
    /\ UNCHANGED <<cfgVars, relayed, horizon, lib, chainHead, timerFired, subs, sub, mainVars, i,
                   rClient, delivered, served, bidVars, apiCalls, persistVars>>

\* main: sub, err := wsClient.SubscribeNewHead(...); log.Crit on failure.
Subscribe ==
    /\ pc = "subscribe"
    /\ \E ok \in BOOLEAN :
         IF ok
         THEN /\ Len(subs) < MaxSubs
              /\ subs' = Append(subs, NewSub(wsClient, 0))
              /\ sub' = Len(subs) + 1
              /\ pc' = "select"
              /\ UNCHANGED outage
         ELSE /\ outage > 0
              /\ outage' = outage - 1
              /\ pc' = "fatal"
              /\ UNCHANGED <<subs, sub>>
    /\ dials' = 0
    /\ UNCHANGED <<cfgVars, relayed, horizon, lib, chainHead, timerFired, wsClient, mainVars, i,
                   rClient, delivered, served, bidVars, apiCalls, persistVars>>

\* reconnectWSClient: wsClient, err = connectWSClient(wsEndpoint) in pass i.
ReconnectDial ==
    /\ pc = "reconnect"
    /\ i < RetryBudget
    /\ \E ok \in BOOLEAN :
         /\ connectWSClient(ok)
         /\ rClient' = IF ok THEN wsClient + 1 ELSE rClient
         /\ pc' = IF ok THEN "resubscribe" ELSE pc
    /\ UNCHANGED <<cfgVars, relayed, horizon, lib, chainHead, timerFired, subs, sub, wsClient,
                   mainVars, i, delivered, served, bidVars, apiCalls,
                   persistVars>>

\* The subscription is made twice on the new connection.
ReconnectSubscribeTwice ==
    /\ pc = "resubscribe"
    /\ \E ok \in BOOLEAN :
         IF ok
         THEN /\ Len(subs) < MaxSubs
              /\ subs' = subs \o <<NewSub(rClient, i), NewSub(rClient, i)>>
              /\ sub' = Len(subs) + 2
              /\ wsClient' = rClient
              /\ pc' = "select"
              /\ i' = 0
              /\ rClient' = 0
              /\ dials' = 0
              /\ UNCHANGED outage
         ELSE /\ outage > 0
              /\ outage' = outage - 1
              /\ i' = i + 1
              /\ pc' = "reconnect"
              /\ UNCHANGED <<subs, sub, wsClient, rClient, dials>>
    /\ UNCHANGED <<cfgVars, relayed, horizon, lib, chainHead, timerFired, mainVars, delivered,
                   served, bidVars, apiCalls, persistVars>>

\* The new connection is returned whether or not the subscription was made.
ReconnectSubscribeIgnoresError ==
    /\ pc = "resubscribe"
    /\ \E ok \in BOOLEAN :
         /\ IF ok
            THEN /\ Len(subs) < MaxSubs
                 /\ subs' = Append(subs, NewSub(rClient, i))
                 /\ sub' = Len(subs) + 1
                 /\ UNCHANGED outage
            ELSE /\ outage > 0
                 /\ outage' = outage - 1
                 /\ UNCHANGED <<subs, sub>>
         /\ wsClient' = rClient
         /\ pc' = "select"
         /\ i' = 0
         /\ rClient' = 0
         /\ dials' = 0
    /\ UNCHANGED <<cfgVars, relayed, horizon, lib, chainHead, timerFired, mainVars, delivered,
                   served, bidVars, apiCalls, persistVars>>

\* reconnectWSClient: sub, err = wsClient.SubscribeNewHead(...) in pass i;
\* on success return (wsClient, sub) to main, else sleep 5 s and i++.
ReconnectSubscribe ==
    /\ pc = "resubscribe"
    /\ \E ok \in BOOLEAN :
         IF ok
         THEN /\ Len(subs) < MaxSubs
              /\ subs' = Append(subs, NewSub(rClient, i))
              /\ sub' = Len(subs) + 1
              /\ wsClient' = rClient
              /\ pc' = "select"
              /\ i' = 0
              /\ rClient' = 0
              /\ dials' = 0
              /\ UNCHANGED outage
         ELSE /\ outage > 0
              /\ outage' = outage - 1
              /\ i' = i + 1
              /\ pc' = "reconnect"
              /\ UNCHANGED <<subs, sub, wsClient, rClient, dials>>
    /\ UNCHANGED <<cfgVars, relayed, horizon, lib, chainHead, timerFired, mainVars, delivered,
                   served, bidVars, apiCalls, persistVars>>

\* reconnectWSClient: the loop ends after RetryBudget passes; log.Crit exits.
ReconnectExhausted ==
    /\ pc = "reconnect"
    /\ i >= RetryBudget
    /\ pc' = "fatal"
    /\ UNCHANGED <<cfgVars, relayed, horizon, lib, envVars, watchVars, mainVars, rcVars, delivered,
                   served, bidVars, apiCalls, persistVars>>

\* ------------------------------------------------------------ main's select
\* The timer is honoured wherever the loop stands, as if it cancelled the
\* work of the header case.
SelectTimerAnywhere ==
    /\ pc \in {"select", "build", "logfee", "bundle", "bid"}
    /\ timerFired
    /\ pc' = "stopped"
    /\ UNCHANGED <<cfgVars, relayed, horizon, lib, envVars, watchVars, mainVars, rcVars, delivered,
                   served, bidVars, apiCalls, persistVars>>

\* case <-timer.C: return
SelectTimer ==
    /\ pc = "select"
    /\ timerFired
    /\ pc' = "stopped"
    /\ UNCHANGED <<cfgVars, relayed, horizon, lib, envVars, watchVars, mainVars, rcVars, delivered,
                   served, bidVars, apiCalls, persistVars>>

\* The error is logged and the loop continues without reconnecting.
SelectSubErrContinues ==
    /\ pc = "select"
    /\ sub # 0
    /\ subs[sub].err
    /\ subs' = [subs EXCEPT ![sub].err = FALSE]
    /\ UNCHANGED <<cfgVars, relayed, horizon, lib, envVars, sub, wsClient, pc, mainVars, rcVars,
                   delivered, served, bidVars, apiCalls, persistVars>>

\* case err := <-sub.Err(): reconnectWSClient(wsEndpoint, headers); continue
SelectSubErr ==
    /\ pc = "select"
    /\ sub # 0
    /\ subs[sub].err
    /\ subs' = [subs EXCEPT ![sub].err = FALSE]
    /\ pc' = "reconnect"
    /\ i' = 0
    /\ rClient' = 0
    /\ dials' = 0
    /\ UNCHANGED <<cfgVars, relayed, horizon, lib, envVars, sub, wsClient, mainVars,
                   delivered, served, bidVars, apiCalls, persistVars>>

\* A header is taken while the previous one is still being built or bid.
SelectHeaderWhileBusy ==
    /\ pc \in {"select", "build", "logfee", "bundle", "bid"}
    /\ \E s \in LiveSubs :
         /\ subs[s].buf # <<>>
         /\ header' = Head(subs[s].buf)
         /\ delivered' = Append(delivered, Head(subs[s].buf))
         /\ subs' = [subs EXCEPT ![s].buf = Tail(@)]
    /\ pc' = "build"
    /\ UNCHANGED <<cfgVars, relayed, horizon, lib, envVars, sub, wsClient, signedTx,
                   blockNumber, err, rcVars, served, bidVars, apiCalls,
                   persistVars>>

\* case header := <-headers: any subscription writing to the shared channel
\* may be the sender.
SelectHeader ==
    /\ pc = "select"
    /\ \E s \in LiveSubs :
         /\ subs[s].buf # <<>>
         /\ header' = Head(subs[s].buf)
         /\ delivered' = Append(delivered, Head(subs[s].buf))
         /\ subs' = [subs EXCEPT ![s].buf = Tail(@)]
    /\ pc' = "build"
    /\ UNCHANGED <<cfgVars, relayed, horizon, lib, envVars, sub, wsClient, signedTx,
                   blockNumber, err, rcVars, served, bidVars, apiCalls,
                   persistVars>>

\* ------------------------------------------------------------- persistence
Remove(seq, k) == SubSeq(seq, 1, k - 1) \o SubSeq(seq, k + 1, Len(seq))

\* go saveBidRequest("data/bid.json", bidRequest, submitTimestamp)
NewRequestTask(req) == [data |-> [bidRequest |-> req], st |-> "new", existing |-> <<>>]

\* go saveBidResponses("data/response.json", responses)
NewResponseTask(resps) == [responses |-> resps, st |-> "new", existing |-> <<>>]

\* saveBidRequest up to decoder.Decode(&existingData): MkdirAll, OpenFile or
\* Decode may fail, and then the goroutine returns.
SaveBidRequestRead ==
    /\ Alive
    /\ \E k \in 1 .. Len(reqTasks) :
         /\ reqTasks[k].st = "new"
         /\ \E ok \in BOOLEAN :
              /\ reqTasks' = IF ok
                             THEN [reqTasks EXCEPT ![k].st = "read",
                                                   ![k].existing = bidLog]
                             ELSE Remove(reqTasks, k)
              /\ ioErrors' = IF ok THEN ioErrors ELSE ioErrors + 1
    /\ UNCHANGED <<cfgVars, relayed, horizon, lib, envVars, watchVars, pc, mainVars, rcVars,
                   delivered, served, bidVars, apiCalls, respTasks, bidLog,
                   respLog>>

\* saveBidRequest from append to encoder.Encode: the file is truncated, then
\* the merged array is written; a failed Encode leaves the file empty.
SaveBidRequestWrite ==
    /\ Alive
    /\ \E k \in 1 .. Len(reqTasks) :
         /\ reqTasks[k].st = "read"
         /\ \E ok \in BOOLEAN :
              /\ bidLog' = IF ok
                           THEN Append(reqTasks[k].existing, reqTasks[k].data)
                           ELSE <<>>
              /\ ioErrors' = IF ok THEN ioErrors ELSE ioErrors + 1
         /\ reqTasks' = Remove(reqTasks, k)
    /\ UNCHANGED <<cfgVars, relayed, horizon, lib, envVars, watchVars, pc, mainVars, rcVars,
                   delivered, served, bidVars, apiCalls, respTasks, respLog>>

\* saveBidResponses up to decoder.Decode(&existingData).
SaveBidResponsesRead ==
    /\ Alive
    /\ \E k \in 1 .. Len(respTasks) :
         /\ respTasks[k].st = "new"
         /\ \E ok \in BOOLEAN :
              /\ respTasks' = IF ok
                              THEN [respTasks EXCEPT ![k].st = "read",
                                                     ![k].existing = respLog]
                              ELSE Remove(respTasks, k)
              /\ ioErrors' = IF ok THEN ioErrors ELSE ioErrors + 1
    /\ UNCHANGED <<cfgVars, relayed, horizon, lib, envVars, watchVars, pc, mainVars, rcVars,
                   delivered, served, bidVars, apiCalls, reqTasks, bidLog,
                   respLog>>

\* saveBidResponses from append(existingData, responses...) to Encode.
SaveBidResponsesWrite ==
    /\ Alive
    /\ \E k \in 1 .. Len(respTasks) :
         /\ respTasks[k].st = "read"
         /\ \E ok \in BOOLEAN :
              /\ respLog' = IF ok
                            THEN respTasks[k].existing \o respTasks[k].responses
                            ELSE <<>>
              /\ ioErrors' = IF ok THEN ioErrors ELSE ioErrors + 1
         /\ respTasks' = Remove(respTasks, k)
    /\ UNCHANGED <<cfgVars, relayed, horizon, lib, envVars, watchVars, pc, mainVars, rcVars,
                   delivered, served, bidVars, apiCalls, reqTasks, bidLog>>

\* ----------------------------------------------------------------- SendBid
\* SendBid's return statement.
Return(stream, e) ==
    /\ bidRet' = [stream |-> stream, err |-> e]
    /\ bpc' = "ret"

\* case []string: txHashes[i] = strings.TrimPrefix(hash, "0x")
TxHashesOf(input) ==
    IF input.type = "strings"
    THEN [k \in 1 .. Len(input.v) |-> TrimPrefix(input.v[k], Prefix0x)]
    ELSE <<>>

\* case []*types.Transaction: rawTransactions[i] = hex.EncodeToString(rlp)
RawTransactionsOf(input) ==
    IF input.type = "txs"
    THEN [k \in 1 .. Len(input.v) |-> EncodeToString(MarshalBinary(input.v[k]))]
    ELSE <<>>

\* The decay start and the decay end are put in each other's field.
BidRequestOfSwapsDecay(txHashes, rawTransactions, amount, blockNum, decayStart, decayEnd) ==
    [Amount |-> amount,
     BlockNumber |-> blockNum,
     DecayStartTimestamp |-> decayEnd,
     DecayEndTimestamp |-> decayStart,
     TxHashes |-> IF Len(txHashes) > 0 THEN txHashes ELSE <<>>,
     RawTransactions |-> IF Len(txHashes) = 0 /\ Len(rawTransactions) > 0
                         THEN rawTransactions ELSE <<>>]

\* bidRequest := &pb.Bid{...}; if len(txHashes) > 0 {...} else if
\* len(rawTransactions) > 0 {...}
BidRequestOf(txHashes, rawTransactions, amount, blockNum, decayStart, decayEnd) ==
    [Amount |-> amount,
     BlockNumber |-> blockNum,
     DecayStartTimestamp |-> decayStart,
     DecayEndTimestamp |-> decayEnd,
     TxHashes |-> IF Len(txHashes) > 0 THEN txHashes ELSE <<>>,
     RawTransactions |-> IF Len(txHashes) = 0 /\ Len(rawTransactions) > 0
                         THEN rawTransactions ELSE <<>>]

\* A later request overtakes the earlier ones, as when every header's bid is
\* sent from a goroutine of its own.
ArriveOvertaking(q, e) == <<e>> \o q

\* response, err := b.client.SendBid(ctx, bidRequest): the call is made by the
\* calling goroutine, so the request reaches the service after those of all
\* earlier calls.
Arrive(q, e) == Append(q, e)

\* saveBidRequest is started before the error of b.client.SendBid is looked
\* at, so also for a call whose stream could not be opened.
SendBidSavesUnopened(input, amount, blockNum, decayStart, decayEnd) ==
    \/ /\ input.type \notin {"strings", "txs"}
       /\ Return(FALSE, "unsupported input type")
       /\ UNCHANGED <<bidRequest, responses, streamed, streamEnd, calls,
                      quota, failedCalls, served, reqTasks>>
    \/ /\ input.type = "txs"
       /\ Len(input.v) > 0
       /\ Return(FALSE, "failed to marshal transaction")
       /\ UNCHANGED <<bidRequest, responses, streamed, streamEnd, calls,
                      quota, failedCalls, served, reqTasks>>
    \/ /\ input.type \in {"strings", "txs"}
       /\ LET req == BidRequestOf(TxHashesOf(input), RawTransactionsOf(input),
                                  amount, blockNum, decayStart, decayEnd)
          IN /\ bidRequest' = req
             /\ \E opened \in BOOLEAN :
                  IF opened
                  THEN /\ served' = Arrive(served, [hdr |-> header, req |-> req])
                       /\ calls' = calls + 1
                       /\ reqTasks' = Append(reqTasks, NewRequestTask(req))
                       /\ bpc' = "recv"
                       /\ UNCHANGED bidRet
                  ELSE /\ Return(FALSE, "failed to send bid")
                       /\ reqTasks' = Append(reqTasks, NewRequestTask(req))
                       /\ UNCHANGED <<served, calls>>
       /\ responses' = <<>>
       /\ streamed' = <<>>
       /\ streamEnd' = "open"
       /\ UNCHANGED <<quota, failedCalls>>

\* SendBid from its entry to the start of the receive loop: the type switch,
\* the request, b.client.SendBid, and go saveBidRequest.
SendBid(input, amount, blockNum, decayStart, decayEnd) ==
    \/ /\ input.type \notin {"strings", "txs"}
       /\ Return(FALSE, "unsupported input type")
       /\ UNCHANGED <<bidRequest, responses, streamed, streamEnd, calls,
                      quota, failedCalls, served, reqTasks>>
    \/ /\ input.type = "txs"
       /\ Len(input.v) > 0
       /\ Return(FALSE, "failed to marshal transaction")
       /\ UNCHANGED <<bidRequest, responses, streamed, streamEnd, calls,
                      quota, failedCalls, served, reqTasks>>
    \/ /\ input.type \in {"strings", "txs"}
       /\ LET req == BidRequestOf(TxHashesOf(input), RawTransactionsOf(input),
                                  amount, blockNum, decayStart, decayEnd)
          IN /\ bidRequest' = req
             /\ \E opened \in BOOLEAN :
                  IF opened
                  THEN /\ served' = Arrive(served, [hdr |-> header, req |-> req])
                       /\ calls' = calls + 1
                       /\ reqTasks' = Append(reqTasks, NewRequestTask(req))
                       /\ bpc' = "recv"
                       /\ UNCHANGED bidRet
                  ELSE /\ Return(FALSE, "failed to send bid")
                       /\ UNCHANGED <<served, calls, reqTasks>>
       /\ responses' = <<>>
       /\ streamed' = <<>>
       /\ streamEnd' = "open"
       /\ UNCHANGED <<quota, failedCalls>>

\* The newest record is put first.
AccumulateNewestFirst(resps, msg) == <<msg>> \o resps

\* responses = append(responses, msg)
Accumulate(resps, msg) == Append(resps, msg)

\* msg, err := response.Recv() delivers an acceptance record.
RecvMsg ==
    /\ Alive
    /\ bpc = "recv"
    /\ quota > 0
    /\ LET msg == [call |-> calls, n |-> Len(streamed) + 1]
       IN /\ streamed' = Append(streamed, msg)
          /\ responses' = Accumulate(responses, msg)
    /\ quota' = quota - 1
    /\ UNCHANGED <<cfgVars, relayed, horizon, lib, envVars, watchVars, pc, mainVars, rcVars,
                   delivered, served, bpc, bidRequest, streamEnd, bidRet,
                   calls, failedCalls, apiCalls, persistVars>>

\* The request is saved before the stream is read to its end: SendBid waits
\* for saveBidRequest instead of running it as a goroutine.
RecvEOFWaitsForSave ==
    /\ Alive
    /\ bpc = "recv"
    /\ reqTasks = <<>>
    /\ streamEnd' = "eof"
    /\ respTasks' = Append(respTasks, NewResponseTask(responses))
    /\ Return(TRUE, "nil")
    /\ UNCHANGED <<cfgVars, relayed, horizon, lib, envVars, watchVars, pc, mainVars, rcVars,
                   delivered, served, bidRequest, responses, streamed, calls,
                   quota, failedCalls, apiCalls, reqTasks, bidLog, respLog, ioErrors>>

\* err == io.EOF: break; go saveBidResponses(...); return response, nil
RecvEOF ==
    /\ Alive
    /\ bpc = "recv"
    /\ streamEnd' = "eof"
    /\ respTasks' = Append(respTasks, NewResponseTask(responses))
    /\ Return(TRUE, "nil")
    /\ UNCHANGED <<cfgVars, relayed, horizon, lib, envVars, watchVars, pc, mainVars, rcVars,
                   delivered, served, bidRequest, responses, streamed, calls,
                   quota, failedCalls, apiCalls, reqTasks, bidLog, respLog, ioErrors>>

\* The records received before the error are saved all the same.
RecvErrSavesPartial ==
    /\ Alive
    /\ bpc = "recv"
    /\ streamEnd' = "error"
    /\ failedCalls' = failedCalls \cup {calls}
    /\ respTasks' = Append(respTasks, NewResponseTask(responses))
    /\ Return(FALSE, "failed to send bid")
    /\ UNCHANGED <<cfgVars, relayed, horizon, lib, envVars, watchVars, pc, mainVars, rcVars,
                   delivered, served, bidRequest, responses, streamed, calls,
                   quota, apiCalls, reqTasks, bidLog, respLog, ioErrors>>

\* err != nil: return nil, fmt.Errorf("failed to send bid: %w", err)
RecvErr ==
    /\ Alive
    /\ bpc = "recv"
    /\ streamEnd' = "error"
    /\ failedCalls' = failedCalls \cup {calls}
    /\ Return(FALSE, "failed to send bid")
    /\ UNCHANGED <<cfgVars, relayed, horizon, lib, envVars, watchVars, pc, mainVars, rcVars,
                   delivered, served, bidRequest, responses, streamed, calls,
                   quota, apiCalls, persistVars>>

\* ------------------------------------------------------- main, header case
BuildOutcomes == {"ok", "PendingNonceAt", "HeaderByNumber", "NetworkID", "SignTx"}

\* ee.SelfETHTransfer: (signedTx, blockNumber + offset, nil), or
\* (nil, 0, err) when a read or the signing fails.
SelfETHTransfer(nonce, latest, off, outcome) ==
    IF outcome = "ok"
    THEN [tx |-> Tx(nonce, maxFeePerGas(latest.BaseFee)),
          blockNumber |-> latest.Number + off,
          err |-> "nil"]
    ELSE [tx |-> NilTx, blockNumber |-> 0, err |-> outcome]

\* client.HeaderByNumber(context.Background(), nil): the latest header.
HeaderByNumber == [Number |-> chainHead, BaseFee |-> BaseFeeAt(chainHead)]

\* signedTx, blockNumber, err := ee.SelfETHTransfer(wsClient, authAcct, amount, offset)
Build ==
    /\ pc = "build"
    /\ \E nonce \in Nonces, outcome \in BuildOutcomes :
         LET r == SelfETHTransfer(nonce, HeaderByNumber, offset, outcome)
         IN /\ signedTx' = r.tx
            /\ blockNumber' = r.blockNumber
            /\ err' = r.err
    /\ pc' = "logfee"
    /\ UNCHANGED <<cfgVars, relayed, horizon, lib, envVars, watchVars, header, rcVars, delivered,
                   served, bidVars, apiCalls, persistVars>>

\* log.Info("Transaction fee values", "GasTipCap", signedTx.GasTipCap(), ...):
\* the calls on a nil signedTx dereference nil and the process panics.
LogFeeValues ==
    /\ pc = "logfee"
    /\ pc' = IF signedTx.isNil THEN "crashed"
             ELSE IF usePayload THEN "bid" ELSE "bundle"
    /\ UNCHANGED <<cfgVars, relayed, horizon, lib, envVars, watchVars, mainVars, rcVars, delivered,
                   served, bidVars, apiCalls, persistVars>>

\* _, err = ee.SendBundle(rpcEndpoint, signedTx, blockNumber); a failure is
\* logged; a panic inside the call ends the process.
SendBundle ==
    /\ pc = "bundle"
    /\ \E o \in BundleOutcomes :
         LET r == SendBundleSteps(env.RPC_ENDPOINT, signedTx, blockNumber, o)
         IN /\ err' = r.err
            /\ pc' = IF r.panicked THEN "crashed" ELSE "bid"
    /\ relayed' = Append(relayed, [signedTx |-> signedTx, blkNum |-> blockNumber])
    /\ UNCHANGED <<cfgVars, horizon, lib, envVars, watchVars, header, signedTx, blockNumber,
                   rcVars, delivered, served, bidVars, apiCalls, persistVars>>

\* The 36 seconds are added to the millisecond clock as seconds.
sendPreconfBidSeconds(input, blockNum) ==
    \E amt \in Amounts, now \in Times :
       CASE input.type = "string" ->
              SendBid([type |-> "strings", v |-> <<TrimPrefix(input.v, Prefix0x)>>],
                      Sprintf(amt), blockNum, now, now + (DecayMs \div 1000))
         [] input.type = "tx" ->
              SendBid([type |-> "txs", v |-> <<input.v>>],
                      Sprintf(amt), blockNum, now, now + (DecayMs \div 1000))
         [] OTHER ->
              /\ Return(FALSE, "nil")
              /\ UNCHANGED <<bidRequest, responses, streamed, streamEnd, calls,
                             quota, failedCalls, served, reqTasks>>

\* sendPreconfBid up to the SendBid call: the random amount, the decay
\* window, the switch on the input's type.
sendPreconfBid(input, blockNum) ==
    \E amt \in Amounts, now \in Times :
       CASE input.type = "string" ->
              SendBid([type |-> "strings", v |-> <<TrimPrefix(input.v, Prefix0x)>>],
                      Sprintf(amt), blockNum, now, now + DecayMs)
         [] input.type = "tx" ->
              SendBid([type |-> "txs", v |-> <<input.v>>],
                      Sprintf(amt), blockNum, now, now + DecayMs)
         [] OTHER ->
              /\ Return(FALSE, "nil")
              /\ UNCHANGED <<bidRequest, responses, streamed, streamEnd, calls,
                             quota, failedCalls, served, reqTasks>>

\* The transaction itself is handed to sendPreconfBid in both modes.
BidSendsPayloadInBothModes ==
    /\ pc = "bid"
    /\ bpc = "idle"
    /\ sendPreconfBid([type |-> "tx", v |-> signedTx], blockNumber)
    /\ UNCHANGED <<cfgVars, relayed, horizon, lib, envVars, watchVars, pc, mainVars, rcVars,
                   delivered, apiCalls, respTasks, bidLog, respLog, ioErrors>>

\* if usePayload { sendPreconfBid(bidderClient, signedTx, ...) } else {
\* ... sendPreconfBid(bidderClient, signedTx.Hash().String(), ...) }
Bid ==
    /\ pc = "bid"
    /\ bpc = "idle"
    /\ sendPreconfBid(IF usePayload
                      THEN [type |-> "tx", v |-> signedTx]
                      ELSE [type |-> "string", v |-> HashString(signedTx)],
                      blockNumber)
    /\ UNCHANGED <<cfgVars, relayed, horizon, lib, envVars, watchVars, pc, mainVars, rcVars,
                   delivered, apiCalls, respTasks, bidLog, respLog, ioErrors>>

\* A bid that failed is submitted again at once for the same header.
BidReturnRetriesFailedBid ==
    /\ pc = "bid"
    /\ bpc = "ret"
    /\ IF bidRet.err # "nil"
       THEN UNCHANGED <<pc, mainVars>>
       ELSE /\ pc' = "select"
            /\ header' = 0
            /\ signedTx' = NilTx
            /\ blockNumber' = 0
            /\ err' = "nil"
    /\ bpc' = "idle"
    /\ bidRequest' = NoRequest
    /\ responses' = <<>>
    /\ streamed' = <<>>
    /\ streamEnd' = "open"
    /\ bidRet' = NoReturn
    /\ UNCHANGED <<cfgVars, relayed, horizon, lib, envVars, watchVars, rcVars, delivered, served,
                   calls, quota, failedCalls, apiCalls, persistVars>>

\* sendPreconfBid logs the outcome and returns; main logs err and goes back
\* to the select.
BidReturn ==
    /\ pc = "bid"
    /\ bpc = "ret"
    /\ pc' = "select"
    /\ header' = 0
    /\ signedTx' = NilTx
    /\ blockNumber' = 0
    /\ err' = "nil"
    /\ bpc' = "idle"
    /\ bidRequest' = NoRequest
    /\ responses' = <<>>
    /\ streamed' = <<>>
    /\ streamEnd' = "open"
    /\ bidRet' = NoReturn
    /\ UNCHANGED <<cfgVars, relayed, horizon, lib, envVars, watchVars, rcVars, delivered, served,
                   calls, quota, failedCalls, apiCalls, persistVars>>

\* ------------------------------------------- a direct caller of Bidder.SendBid
HashStrings == {<<"a", "b">>, Prefix0x \o <<"a", "b">>}

Txs == {Tx(n, maxFeePerGas(BaseFeeAt(0))) : n \in Nonces}

SeqsUpTo(S, n) == UNION {[1 .. k -> S] : k \in 0 .. n}

\* Values the interface{} parameter can hold.
Inputs ==
    {[type |-> "strings", v |-> v] : v \in SeqsUpTo(HashStrings, MaxLen)}
    \cup {[type |-> "txs", v |-> v] : v \in SeqsUpTo(Txs, MaxLen)}
    \cup {[type |-> "other", v |-> <<>>]}

InitBid ==
    /\ usePayload = TRUE
    /\ offset = 1
    /\ Started
    /\ callBudget = MaxCalls
    /\ horizon = 0
    /\ lib = NoCall
    /\ pc = "api"
    /\ outage = 0
    /\ quota = MaxRecords
    /\ InitCommon

\* The bid of the README's example request. Its timestamps, milliseconds in
\* the README, are given in seconds here; SendBid and pb.Bid hold them as
\* int64 from end to end.
ExampleBid ==
    [amount |-> <<"8", "7", "0", "4", "4", "6", "6", "7", "7", "0", "5", "6",
                  "7", "1", "6", "8">>,
     blockNumber |-> 2513098,
     decayStart |-> 1728667766,
     decayEnd |-> 1728668766]

\* The amount, the block number and the decay window a direct caller passes.
ApiArgs ==
    {[amount |-> Sprintf(amt), blockNumber |-> 1, decayStart |-> now,
      decayEnd |-> now + DecayMs] : amt \in Amounts, now \in Times}
    \cup {ExampleBid}

ApiCall ==
    /\ pc = "api"
    /\ bpc = "idle"
    /\ apiCalls < callBudget
    /\ apiCalls' = apiCalls + 1
    /\ \E input \in Inputs, a \in ApiArgs :
         /\ SendBid(input, a.amount, a.blockNumber, a.decayStart, a.decayEnd)
         /\ lib' = [op |-> "SendBid", args |-> a]
    /\ UNCHANGED <<cfgVars, relayed, horizon, envVars, watchVars, pc, mainVars, rcVars,
                   delivered, respTasks, bidLog, respLog, ioErrors>>

ApiReturn ==
    /\ pc = "api"
    /\ bpc = "ret"
    /\ bpc' = "idle"
    /\ bidRequest' = NoRequest
    /\ responses' = <<>>
    /\ streamed' = <<>>
    /\ streamEnd' = "open"
    /\ bidRet' = NoReturn
    /\ UNCHANGED <<cfgVars, relayed, horizon, lib, envVars, watchVars, pc, mainVars, rcVars,
                   delivered, served, calls, quota, failedCalls, apiCalls,
                   persistVars>>

\* ------------------------------------------------------------ specifications
Persist ==
    \/ SaveBidRequestRead
    \/ SaveBidRequestWrite
    \/ SaveBidResponsesRead
    \/ SaveBidResponsesWrite

Recv == RecvMsg \/ RecvEOF \/ RecvErr

Next ==
    \/ NewHead
    \/ SubFail
    \/ TimerFire
    \/ Connect
    \/ Subscribe
    \/ ReconnectDial
    \/ ReconnectSubscribe
    \/ SelectTimer
    \/ SelectSubErr
    \/ SelectHeader
    \/ Build
    \/ LogFeeValues
    \/ SendBundle
    \/ Bid
    \/ BidReturn
    \/ Recv

\* The control loop on an endpoint that refuses at most MaxOutage requests:
\* reconnectWSClient then never uses up its RetryBudget passes, and
\* ReconnectExhausted is left to SpecReconnect. The writers of the two files
\* share no state with the loop; their steps are left to SpecBid.
Spec == Init /\ [][Next]_vars

\* What the scheduler and the Go runtime guarantee: the main goroutine keeps
\* running, so each of its steps that needs nothing from outside is taken,
\* and a select with several ready cases picks among them at random, so the
\* timer case is not passed over for ever. Nothing makes the bidding service
\* deliver a record, end the stream or fail it (SendBid reads the stream
\* under context.Background(), without a deadline), and nothing makes the
\* chain produce a block or a subscription fail.
Fairness ==
    /\ WF_vars(Connect)
    /\ WF_vars(Subscribe)
    /\ WF_vars(ReconnectDial)
    /\ WF_vars(ReconnectSubscribe)
    /\ WF_vars(SelectSubErr)
    /\ SF_vars(SelectTimer)
    /\ WF_vars(Build)
    /\ WF_vars(LogFeeValues)
    /\ WF_vars(SendBundle)
    /\ WF_vars(Bid)
    /\ WF_vars(BidReturn)

SpecLive == Init /\ [][Next]_vars /\ Fairness

\* The watcher alone on an endpoint that refuses more requests than
\* reconnectWSClient has passes.
InitReconnect ==
    /\ usePayload = TRUE
    /\ offset = 1
    /\ Started
    /\ callBudget = 0
    /\ horizon = 0
    /\ lib = NoCall
    /\ pc = "connect"
    /\ outage = RetryBudget + MaxOutage
    /\ quota = 0
    /\ InitCommon

NextReconnect ==
    \/ SubFail
    \/ Connect
    \/ Subscribe
    \/ ReconnectDial
    \/ ReconnectSubscribe
    \/ ReconnectExhausted
    \/ SelectSubErr

SpecReconnect == InitReconnect /\ [][NextReconnect]_vars

\* The control loop with the default OFFSET on an endpoint and a service
\* that refuse nothing, over a chain that produces one block more than in
\* Spec. The account's pending nonce never moves (Nonces): none of its
\* transactions is mined during the run.
InitRebid ==
    /\ usePayload \in BOOLEAN
    /\ offset = 1
    /\ Started
    /\ callBudget = 0
    /\ horizon = MaxHeads + 1
    /\ lib = NoCall
    /\ pc = "connect"
    /\ outage = 0
    /\ quota = 0
    /\ InitCommon

NextRebid ==
    \/ NewHead
    \/ Connect
    \/ Subscribe
    \/ SelectHeader
    \/ Build
    \/ LogFeeValues
    \/ SendBundle
    \/ Bid
    \/ BidReturn
    \/ RecvEOF
    \/ RecvErr

SpecRebid == InitRebid /\ [][NextRebid]_vars

\* -------------------------------------------------------- main's startup
\* main at its first statement, in any environment, on endpoints that refuse
\* as many dials as connectRPCClientWithRetries makes and MaxOutage more.
InitStartup ==
    /\ env \in Envs
    /\ usePayload = TRUE
    /\ offset = 1
    /\ rpc = NoRpc
    /\ bidderClient = 0
    /\ callBudget = 0
    /\ horizon = 1
    /\ lib = NoCall
    /\ pc = "config"
    /\ outage = RpcMaxRetries + MaxOutage
    /\ quota = 0
    /\ InitCommon

startVars == <<relayed, horizon, lib, envVars, watchVars, mainVars, rcVars, delivered,
               served, bidVars, apiCalls, persistVars>>

\* main, lines 93-158: the configuration is read and checked.
ReadConfig ==
    /\ pc = "config"
    /\ usePayload' = Config(env).usePayload
    /\ offset' = Config(env).offset
    /\ pc' = IF Config(env).err = "nil" THEN "auth" ELSE "fatal"
    /\ UNCHANGED <<env, rpc, bidderClient, callBudget, startVars>>

\* authAcct, err := bb.AuthenticateAddress(privateKeyHex): a key that is not
\* the hex of a private key ends the process in log.Crit.
Authenticate ==
    /\ pc = "auth"
    /\ pc' = IF env.PRIVATE_KEY = "key" THEN "bidder" ELSE "fatal"
    /\ UNCHANGED <<cfgVars, startVars>>

\* bidderClient, err := bb.NewBidderClient(cfg); log.Crit on failure. Then
\* if !usePayload, connectRPCClientWithRetries(rpcEndpoint, 5, timeout).
NewBidderClient ==
    /\ pc = "bidder"
    /\ \E ok \in BOOLEAN :
         IF ok
         THEN /\ bidderClient' = 1
              /\ pc' = IF usePayload THEN "connect" ELSE "rpcdial"
              /\ rpc' = IF usePayload THEN rpc
                        ELSE [NoRpc EXCEPT !.maxRetries = RpcMaxRetries]
         ELSE /\ pc' = "fatal"
              /\ UNCHANGED <<bidderClient, rpc>>
    /\ UNCHANGED <<env, usePayload, offset, callBudget, startVars>>

\* The sleep after a failed dial does not grow.
RpcDialConstantBackoff ==
    /\ pc = "rpcdial"
    /\ rpc.i < rpc.maxRetries
    /\ \E ok \in BOOLEAN :
         IF ok
         THEN /\ Dials(env.RPC_ENDPOINT)
              /\ rpc' = [rpc EXCEPT !.attempts = @ + 1, !.client = "connected"]
              /\ pc' = "rpcret"
              /\ UNCHANGED outage
         ELSE /\ outage > 0
              /\ outage' = outage - 1
              /\ rpc' = [rpc EXCEPT !.attempts = @ + 1,
                                    !.sleeps = Append(@, BaseDelay),
                                    !.i = @ + 1]
              /\ UNCHANGED pc
    /\ UNCHANGED <<env, usePayload, offset, bidderClient, callBudget, relayed, horizon, lib,
                   chainHead, timerFired, watchVars, mainVars, rcVars,
                   delivered, served, bidVars, apiCalls, persistVars>>

\* connectRPCClientWithRetries, one pass of the loop: ethclient.DialContext;
\* return rpcClient if it connected, else log, sleep and i++.
RpcDial ==
    /\ pc = "rpcdial"
    /\ rpc.i < rpc.maxRetries
    /\ \E ok \in BOOLEAN :
         IF ok
         THEN /\ Dials(env.RPC_ENDPOINT)
              /\ rpc' = [rpc EXCEPT !.attempts = @ + 1, !.client = "connected"]
              /\ pc' = "rpcret"
              /\ UNCHANGED outage
         ELSE /\ outage > 0
              /\ outage' = outage - 1
              /\ rpc' = [rpc EXCEPT !.attempts = @ + 1,
                                    !.sleeps = Append(@, Backoff(rpc.i)),
                                    !.i = @ + 1]
              /\ UNCHANGED pc
    /\ UNCHANGED <<env, usePayload, offset, bidderClient, callBudget, relayed, horizon, lib,
                   chainHead, timerFired, watchVars, mainVars, rcVars,
                   delivered, served, bidVars, apiCalls, persistVars>>

\* connectRPCClientWithRetries after the loop: log.Error, return nil.
RpcExhausted ==
    /\ pc = "rpcdial"
    /\ rpc.i >= rpc.maxRetries
    /\ rpc' = [rpc EXCEPT !.client = "nil"]
    /\ pc' = "rpcret"
    /\ UNCHANGED <<env, usePayload, offset, bidderClient, callBudget, startVars>>

\* main: if client == nil { log.Error(...) }; log.Info("(rpc) geth client
\* connected"): main goes on to the WS endpoint in both cases.
RpcReturn ==
    /\ pc = "rpcret"
    /\ pc' = "connect"
    /\ UNCHANGED <<cfgVars, startVars>>

NextStartup ==
    \/ ReadConfig
    \/ Authenticate
    \/ NewBidderClient
    \/ RpcDial
    \/ RpcExhausted
    \/ RpcReturn
    \/ Connect
    \/ Subscribe
    \/ NewHead
    \/ SelectHeader

\* main from its first statement to the first header it takes.
SpecStartup == InitStartup /\ [][NextStartup]_vars

\* ------------------------------------------ the transaction builders alone
\* The two definitions of SelfETHTransfer in the source, by their first line.
TipPolicies == {"sendtx.go:28", "sendtx.go:244"}

\* GasTipCap: big.NewInt(0) in the first definition, maxPriorityFee in the
\* second.
GasTipCap(policy, baseFee) ==
    IF policy = "sendtx.go:28" THEN 0 ELSE maxPriorityFee(baseFee)

\* types.NewTx(&types.DynamicFeeTx{...})
DynamicFeeTx(policy, nonce, baseFee) ==
    [Nonce |-> nonce,
     Gas |-> 500000,
     GasFeeCap |-> maxFeePerGas(baseFee),
     GasTipCap |-> GasTipCap(policy, baseFee)]

\* blobFeeCap := CalcBlobFee(...); Add 1; Mul 110; Div 100
BlobFeeCapNoMargin(minBlobFee) == (minBlobFee * 110) \div 100

BlobFeeCap(minBlobFee) == ((minBlobFee + 1) * 110) \div 100

\* Blobs are told apart by a number; commitments, proofs and versioned
\* hashes by what they are computed from.
BlobValues == {1, 2}

\* The zero values the library returns together with an error.
ZeroCommitment == <<"commitment", 0>>

ZeroProof == <<"proof", 0, ZeroCommitment>>

\* kzg4844.BlobToCommitment(&blob): (commitment, nil) or (Commitment{}, err).
BlobToCommitment(blob, ok) ==
    IF ok THEN [c |-> <<"commitment", blob>>, err |-> "nil"]
    ELSE [c |-> ZeroCommitment, err |-> "BlobToCommitment"]

\* kzg4844.ComputeBlobProof(&blob, c): (proof, nil) or (Proof{}, err).
ComputeBlobProof(blob, c, ok) ==
    IF ok THEN [p |-> <<"proof", blob, c>>, err |-> "nil"]
    ELSE [p |-> ZeroProof, err |-> "ComputeBlobProof"]

\* How the library answers the two calls made for each of n blobs.
KzgOutcomes(n) == [1 .. n -> [c : BOOLEAN, p : BOOLEAN]]

\* The library answers every call with a result.
KzgOk(n) == [k \in 1 .. n |-> [c |-> TRUE, p |-> TRUE]]

CalcBlobHashV1(c) == <<"hash", c>>

\* randBlobs(n)
randBlobs(n) == [1 .. n -> BlobValues]

\* The commitment and the proof of each blob are put in front of the earlier
\* ones.
RECURSIVE makeSidecarNewestFirst(_, _)
makeSidecarNewestFirst(blobs, kzg) ==
    IF blobs = <<>>
    THEN [Blobs |-> <<>>, Commitments |-> <<>>, Proofs |-> <<>>]
    ELSE LET rest == makeSidecarNewestFirst(SubSeq(blobs, 1, Len(blobs) - 1), kzg)
             blob == blobs[Len(blobs)]
             c == BlobToCommitment(blob, kzg[Len(blobs)].c).c
             p == ComputeBlobProof(blob, c, kzg[Len(blobs)].p).p
         IN [Blobs |-> blobs,
             Commitments |-> <<c>> \o rest.Commitments,
             Proofs |-> <<p>> \o rest.Proofs]

\* makeSidecar: for each blob in turn, c, _ := BlobToCommitment and
\* p, _ := ComputeBlobProof, whose errors are dropped, then append both.
RECURSIVE makeSidecar(_, _)
makeSidecar(blobs, kzg) ==
    IF blobs = <<>>
    THEN [Blobs |-> <<>>, Commitments |-> <<>>, Proofs |-> <<>>]
    ELSE LET rest == makeSidecar(SubSeq(blobs, 1, Len(blobs) - 1), kzg)
             blob == blobs[Len(blobs)]
             c == BlobToCommitment(blob, kzg[Len(blobs)].c).c
             p == ComputeBlobProof(blob, c, kzg[Len(blobs)].p).p
         IN [Blobs |-> blobs,
             Commitments |-> Append(rest.Commitments, c),
             Proofs |-> Append(rest.Proofs, p)]

\* sideCar.BlobHashes(): the versioned hash of each commitment, in order.
BlobHashes(sideCar) ==
    [k \in 1 .. Len(sideCar.Commitments) |-> CalcBlobHashV1(sideCar.Commitments[k])]

\* types.NewTx(&types.BlobTx{...}) as ExecuteBlobTransaction fills it.
BlobTx(nonce, baseFee, minBlobFee, blobs, kzg) ==
    LET sideCar == makeSidecar(blobs, kzg)
    IN [Nonce |-> nonce,
        Gas |-> 500000,
        GasTipCap |-> 0,
        GasFeeCap |-> maxFeePerGas(baseFee),
        BlobFeeCap |-> BlobFeeCap(minBlobFee),
        BlobHashes |-> BlobHashes(sideCar),
        Sidecar |-> sideCar]

NoTx == [Nonce |-> 0]

\* ExecuteBlobTransaction: (signedTx, nil), or (nil, err) when a read of the
\* chain or the signing fails; nothing of makeSidecar reaches its error.
ExecuteBlobTransaction(nonce, baseFee, minBlobFee, blobs, kzg, outcome) ==
    IF outcome = "ok"
    THEN [tx |-> BlobTx(nonce, baseFee, minBlobFee, blobs, kzg), err |-> "nil"]
    ELSE [tx |-> NoTx, err |-> outcome]

\* A call of ExecuteBlobTransaction for n blobs at minimum blob fee m; faults
\* tells whether the commitment library may fail during the call.
BlobCall(n, m, faults) ==
    [op |-> "ExecuteBlobTransaction", numBlobs |-> n, minBlobFee |-> m,
     faults |-> faults, kzg |-> <<>>, done |-> FALSE, tx |-> NoTx, err |-> "nil"]

\* Calls of the two builders, by what they read from the chain. randBlobs
\* makes each blob of canonical field elements, and the library commits to
\* such a blob without error.
BuilderCalls ==
    {[op |-> "SelfETHTransfer", policy |-> p, baseFee |-> b, done |-> FALSE,
      tx |-> NoTx] : p \in TipPolicies, b \in 0 .. MaxBaseFee}
    \cup
    {BlobCall(n, m, FALSE) : n \in 0 .. MaxBlobs, m \in 1 .. MaxBlobFee}
    \cup
    {[op |-> "both kinds", policy |-> p, baseFee |-> b, done |-> FALSE,
      transfer |-> NoTx, blob |-> NoTx] : p \in TipPolicies, b \in 0 .. MaxBaseFee}

InitBuild ==
    /\ usePayload = TRUE
    /\ offset = 1
    /\ Started
    /\ callBudget = 0
    /\ horizon = 0
    /\ lib \in BuilderCalls
    /\ pc = "lib"
    /\ outage = 0
    /\ quota = 0
    /\ InitCommon

\* SelfETHTransfer from the fee computation to types.NewTx.
CallSelfETHTransfer ==
    /\ pc = "lib"
    /\ lib.op = "SelfETHTransfer"
    /\ ~lib.done
    /\ \E nonce \in Nonces :
         lib' = [lib EXCEPT !.done = TRUE,
                            !.tx = DynamicFeeTx(lib.policy, nonce, lib.baseFee)]
    /\ UNCHANGED <<cfgVars, relayed, horizon, envVars, watchVars, pc, mainVars, rcVars,
                   delivered, served, bidVars, apiCalls, persistVars>>

\* ExecuteBlobTransaction from the blob fee cap to types.NewTx.
CallExecuteBlobTransaction ==
    /\ pc = "lib"
    /\ lib.op = "ExecuteBlobTransaction"
    /\ ~lib.done
    /\ \E nonce \in Nonces, blobs \in randBlobs(lib.numBlobs),
          kzg \in IF lib.faults THEN KzgOutcomes(lib.numBlobs)
                  ELSE {KzgOk(lib.numBlobs)},
          outcome \in BuildOutcomes :
         LET r == ExecuteBlobTransaction(nonce, BaseFeeAt(0), lib.minBlobFee,
                                         blobs, kzg, outcome)
         IN lib' = [lib EXCEPT !.done = TRUE, !.kzg = kzg,
                               !.tx = r.tx, !.err = r.err]
    /\ UNCHANGED <<cfgVars, relayed, horizon, envVars, watchVars, pc, mainVars, rcVars,
                   delivered, served, bidVars, apiCalls, persistVars>>

\* SelfETHTransfer and ExecuteBlobTransaction called one after the other on
\* the same latest header.
CallBothKinds ==
    /\ pc = "lib"
    /\ lib.op = "both kinds"
    /\ ~lib.done
    /\ \E nonce \in Nonces, blobs \in randBlobs(1) :
         lib' = [lib EXCEPT
                   !.done = TRUE,
                   !.transfer = DynamicFeeTx(lib.policy, nonce, lib.baseFee),
                   !.blob = ExecuteBlobTransaction(nonce, lib.baseFee, 1, blobs,
                                                   KzgOk(1), "ok").tx]
    /\ UNCHANGED <<cfgVars, relayed, horizon, envVars, watchVars, pc, mainVars, rcVars,
                   delivered, served, bidVars, apiCalls, persistVars>>

NextBuild == CallSelfETHTransfer \/ CallExecuteBlobTransaction \/ CallBothKinds

SpecBuild == InitBuild /\ [][NextBuild]_vars

\* ExecuteBlobTransaction alone, with a commitment library that may fail on
\* any of its calls.
InitKzgFault ==
    /\ usePayload = TRUE
    /\ offset = 1
    /\ Started
    /\ callBudget = 0
    /\ horizon = 0
    /\ lib \in {BlobCall(n, m, TRUE) : n \in 0 .. MaxBlobs, m \in {1, MaxBlobFee}}
    /\ pc = "lib"
    /\ outage = 0
    /\ quota = 0
    /\ InitCommon

SpecKzgFault == InitKzgFault /\ [][CallExecuteBlobTransaction]_vars

\* ------------------------------------- deposits and withdrawals of a window
\* AuthenticateAddress(privateKeyHex): the key, the address, and the
\* transaction options made by bind.NewKeyedTransactorWithChainID, whose
\* Value is nil (0 here: Transact sends no value for nil).
AuthenticateAddress(privateKeyHex) ==
    [PrivateKey |-> privateKeyHex,
     Address |-> <<"address of", privateKeyHex>>,
     Auth |-> [From |-> <<"address of", privateKeyHex>>, Value |-> 0]]

\* bidderRegistryContract.Transact(opts, method, ...): the transaction sent.
Transact(opts, method) == [from |-> opts.From, method |-> method, value |-> opts.Value]

\* A caller that holds an account and deposits into and withdraws from a
\* window: the account, the transactions sent, and the last call's result.
InitWindow ==
    /\ usePayload = TRUE
    /\ offset = 1
    /\ Started
    /\ callBudget = 0
    /\ horizon = 0
    /\ lib = [op |-> "window", authAcct |-> AuthenticateAddress("key"),
              sent |-> <<>>, calls |-> 0, ret |-> "none"]
    /\ pc = "lib"
    /\ outage = 0
    /\ quota = 0
    /\ InitCommon

WindowOutcomes == {"ok", "LoadABI", "Call", "Transact", "WaitMined", "Status"}

\* DepositIntoWindow(client, depositWindow, authAcct): each step may fail and
\* end the call; authAcct.Auth.Value = minDeposit is set once GetMinDeposit
\* has returned, and stays.
DepositIntoWindow ==
    /\ pc = "lib"
    /\ lib.op = "window"
    /\ lib.calls < MaxWindowCalls
    /\ \E outcome \in WindowOutcomes, minDeposit \in 1 .. MaxMinDeposit :
         LET auth == [lib.authAcct.Auth EXCEPT !.Value = minDeposit]
         IN lib' = [lib EXCEPT
                      !.calls = @ + 1,
                      !.ret = IF outcome = "ok" THEN "nil" ELSE outcome,
                      !.authAcct.Auth =
                         IF outcome \in {"LoadABI", "Call"} THEN @ ELSE auth,
                      !.sent =
                         IF outcome \in {"LoadABI", "Call", "Transact"} THEN @
                         ELSE Append(@, Transact(auth, "depositForSpecificWindow"))]
    /\ UNCHANGED <<cfgVars, relayed, horizon, envVars, watchVars, pc, mainVars, rcVars,
                   delivered, served, bidVars, apiCalls, persistVars>>

\* WithdrawFromWindow(client, authAcct, window): Transact(authAcct.Auth, ...)
\* with the options as they are.
WithdrawFromWindow ==
    /\ pc = "lib"
    /\ lib.op = "window"
    /\ lib.calls < MaxWindowCalls
    /\ \E outcome \in WindowOutcomes \ {"Call"} :
         lib' = [lib EXCEPT
                   !.calls = @ + 1,
                   !.ret = IF outcome = "ok" THEN "nil" ELSE outcome,
                   !.sent =
                      IF outcome \in {"LoadABI", "Transact"} THEN @
                      ELSE Append(@, Transact(lib.authAcct.Auth,
                                              "withdrawBidderAmountFromWindow"))]
    /\ UNCHANGED <<cfgVars, relayed, horizon, envVars, watchVars, pc, mainVars, rcVars,
                   delivered, served, bidVars, apiCalls, persistVars>>

SpecWindow == InitWindow /\ [][DepositIntoWindow \/ WithdrawFromWindow]_vars

\* ------------------------------------------------------- SendBundle alone
\* Before the call nothing has been met.
NoBundleOutcome ==
    [marshal |-> TRUE, json |-> TRUE, do |-> TRUE, read |-> TRUE, body |-> ""]

\* A caller of SendBundle with a signed transaction, on either endpoint.
InitBundle ==
    /\ usePayload = FALSE
    /\ offset = 1
    /\ Started
    /\ callBudget = 0
    /\ horizon = 0
    /\ lib \in {[op |-> "SendBundle", RPCURL |-> u, signedTx |-> tx, blkNum |-> n,
                 done |-> FALSE, o |-> NoBundleOutcome,
                 res |-> NoBundleResult] :
                    u \in RpcUrls, tx \in Txs, n \in 0 .. MaxBlkNum}
    /\ pc = "lib"
    /\ outage = 0
    /\ quota = 0
    /\ InitCommon

CallSendBundle ==
    /\ pc = "lib"
    /\ lib.op = "SendBundle"
    /\ ~lib.done
    /\ \E o \in BundleOutcomes :
         lib' = [lib EXCEPT
                   !.done = TRUE,
                   !.o = o,
                   !.res = SendBundleSteps(lib.RPCURL, lib.signedTx, lib.blkNum, o)]
    /\ UNCHANGED <<cfgVars, relayed, horizon, envVars, watchVars, pc, mainVars, rcVars,
                   delivered, served, bidVars, apiCalls, persistVars>>

SpecBundle == InitBundle /\ [][CallSendBundle]_vars

\* --------------------------------------- ListenForCommitmentStoredEvent
\* The listener's own state: where it is (lpc), the chain head, the headers
\* its subscription holds for the unbuffered channel, the header in hand,
\* the block numbers of the log filters opened, the state of sub.Err() and of
\* the current subLogs.Err() ("none", "pending" = an error is waiting,
\* "closed" = the error was taken and the channel is closed, so a receive
\* returns nil at once), the logs met, the events printed and the
\* log-subscription errors logged.
ListenerStart ==
    [op |-> "listen", lpc |-> "start", head |-> 0, queue |-> <<>>, header |-> 0,
     filters |-> <<>>, subErr |-> FALSE, logsErr |-> "none", logs |-> 0,
     printed |-> 0, logErrs |-> 0]

InitListen ==
    /\ usePayload = TRUE
    /\ offset = 1
    /\ Started
    /\ callBudget = 0
    /\ horizon = 0
    /\ lib = ListenerStart
    /\ pc = "lib"
    /\ outage = 0
    /\ quota = 0
    /\ InitCommon

listenFrame == <<cfgVars, relayed, horizon, envVars, watchVars, pc, mainVars, rcVars,
                 delivered, served, bidVars, apiCalls, persistVars>>

\* LoadABI and client.SubscribeNewHead: log.Fatalf when either fails.
ListenStart ==
    /\ lib.op = "listen"
    /\ lib.lpc = "start"
    /\ \E ok \in BOOLEAN : lib' = [lib EXCEPT !.lpc = IF ok THEN "select" ELSE "fatal"]
    /\ UNCHANGED listenFrame

\* The chain produces a head; the header subscription holds it until the
\* listener receives from headers.
ListenNewHead ==
    /\ lib.op = "listen"
    /\ lib.lpc \in {"select", "logs"}
    /\ ~lib.subErr
    /\ lib.head < MaxListenHeads
    /\ lib' = [lib EXCEPT !.head = @ + 1, !.queue = Append(@, lib.head + 1)]
    /\ UNCHANGED listenFrame

\* The header subscription fails.
ListenSubFail ==
    /\ lib.op = "listen"
    /\ lib.lpc \in {"select", "logs"}
    /\ ~lib.subErr
    /\ lib' = [lib EXCEPT !.subErr = TRUE]
    /\ UNCHANGED listenFrame

\* case err := <-sub.Err(): log.Fatalf
ListenSubErr ==
    /\ lib.op = "listen"
    /\ lib.lpc = "select"
    /\ lib.subErr
    /\ lib' = [lib EXCEPT !.lpc = "fatal"]
    /\ UNCHANGED listenFrame

\* case header := <-headers: the query for header.Number and
\* client.SubscribeFilterLogs; on its error log and continue, else enter the
\* inner loop.
ListenHeader ==
    /\ lib.op = "listen"
    /\ lib.lpc = "select"
    /\ lib.queue # <<>>
    /\ \E ok \in BOOLEAN :
         lib' = IF ok
                THEN [lib EXCEPT !.header = Head(lib.queue),
                                 !.queue = Tail(@),
                                 !.filters = Append(@, Head(lib.queue)),
                                 !.logsErr = "none",
                                 !.lpc = "logs"]
                ELSE [lib EXCEPT !.header = Head(lib.queue), !.queue = Tail(@)]
    /\ UNCHANGED listenFrame

\* The log subscription of the header in hand fails.
ListenLogsFail ==
    /\ lib.op = "listen"
    /\ lib.lpc = "logs"
    /\ lib.logsErr = "none"
    /\ lib' = [lib EXCEPT !.logsErr = "pending"]
    /\ UNCHANGED listenFrame

\* case err := <-subLogs.Err(): log.Printf; break. The break ends the select
\* statement it is in, not the for loop around it: the inner loop goes on.
ListenLogsErr ==
    /\ lib.op = "listen"
    /\ lib.lpc = "logs"
    /\ lib.logsErr \in {"pending", "closed"}
    /\ lib.logErrs < MaxLogs
    /\ lib' = [lib EXCEPT !.logErrs = @ + 1, !.logsErr = "closed"]
    /\ UNCHANGED listenFrame

\* case vLog := <-logs: UnpackIntoInterface; on its error log and continue,
\* else print the event. The inner loop goes on in both cases.
ListenLog ==
    /\ lib.op = "listen"
    /\ lib.lpc = "logs"
    /\ lib.logsErr = "none"
    /\ lib.logs < MaxLogs
    /\ \E ok \in BOOLEAN :
         lib' = [lib EXCEPT !.logs = @ + 1,
                            !.printed = IF ok THEN @ + 1 ELSE @]
    /\ UNCHANGED listenFrame

NextListen ==
    \/ ListenStart
    \/ ListenNewHead
    \/ ListenSubFail
    \/ ListenSubErr
    \/ ListenHeader
    \/ ListenLogsFail
    \/ ListenLogsErr
    \/ ListenLog

SpecListen == InitListen /\ [][NextListen]_vars

NextBid == ApiCall \/ ApiReturn \/ Recv \/ Persist

SpecBid == InitBid /\ [][NextBid]_vars

\* A direct caller that calls SendBid once more than in SpecBid, on a service
\* that issues no acceptance record: the writers started by one call may
\* still run when those of the next call start.
InitLog ==
    /\ usePayload = TRUE
    /\ offset = 1
    /\ Started
    /\ callBudget = MaxCalls + 1
    /\ horizon = 0
    /\ lib = NoCall
    /\ pc = "api"
    /\ outage = 0
    /\ quota = 0
    /\ InitCommon

NextLog == ApiCall \/ ApiReturn \/ RecvEOF \/ RecvErr \/ Persist

SpecLog == InitLog /\ [][NextLog]_vars

\* ------------------------------------------------------------------ claims
RECURSIVE IsSubseq(_, _)
IsSubseq(a, b) ==
    IF a = <<>> THEN TRUE
    ELSE IF b = <<>> THEN FALSE
    ELSE IF Head(a) = Head(b) THEN IsSubseq(Tail(a), Tail(b))
    ELSE IsSubseq(a, Tail(b))

NoDuplicates(q) == \A a, b \in 1 .. Len(q) : a # b => q[a] # q[b]

ServedHeaders == [k \in 1 .. Len(served) |-> served[k].hdr]

InReconnect == pc \in {"reconnect", "resubscribe"}

ReconnectReturns == pc = "resubscribe" /\ pc' = "select"

C2_BidsInHeaderOrder == IsSubseq(ServedHeaders, delivered)

\* C2 witness: two bids, for two headers, have reached the service.
C2_Witness == Len(served) = 2 /\ served[1].hdr # served[2].hdr

\* C3: the loop takes a header from the channel only at the select, with no
\* header in hand and no SendBid call running; SendBid runs only while the
\* loop holds the header it bids for.
C3_OneHeaderAtATime ==
    /\ [](bpc # "idle" => (pc = "bid" /\ header # 0))
    /\ [][delivered' # delivered =>
            (pc = "select" /\ bpc = "idle" /\ header = 0)]_vars

\* C3 witness: the response stream of one header's bid is being drained while
\* the next header waits in the subscription's queue.
C3_Witness ==
    /\ pc = "bid"
    /\ bpc = "recv"
    /\ streamed # <<>>
    /\ \E s \in LiveSubs : subs[s].buf # <<>>

\* C4: a reconnect episode makes at most RetryBudget connection attempts.
C4_ReconnectWithinBudget == InReconnect => dials <= RetryBudget

\* C5: at most one subscription feeds the headers channel, no header is
\* delivered to the loop twice, and when reconnectWSClient returns, the
\* subscription it returns is the only live one.
C5_OneSubscriptionNoDuplicates ==
    /\ [](Cardinality(LiveSubs) <= 1 /\ NoDuplicates(delivered))
    /\ [][ReconnectReturns => LiveSubs' = {sub'}]_vars

\* C5 witness: a header is delivered by a subscription that was made after
\* at least one failed pass of reconnectWSClient.
C5_Witness ==
    /\ sub > 1
    /\ subs[sub].after >= 1
    /\ subs[sub].live
    /\ pc = "build"
    /\ header > 0

\* C6: reconnectWSClient returns only with a new, live subscription on the
\* connection it returns; a pass whose subscription fails is counted and the
\* loop goes on to the next pass; the loop's sub is always on its wsClient.
C6_ReconnectReturnsLiveSubscription ==
    /\ [](pc = "select" /\ sub # 0 => subs[sub].client = wsClient)
    /\ [][ReconnectReturns =>
            (sub' # sub /\ sub' \in LiveSubs' /\ subs'[sub'].client = wsClient')]_vars
    /\ [][(pc = "resubscribe" /\ subs' = subs) =>
            (i' = i + 1 /\ pc' = "reconnect")]_vars

\* C6 witness: the loop is back at the select with a live subscription made
\* after a failed pass.
C6_Witness ==
    /\ pc = "select"
    /\ sub > 1
    /\ subs[sub].after >= 1
    /\ subs[sub].live

\* C7: taking the error from sub.Err() starts a reconnect; no header is taken
\* and no bid is sent while the reconnect runs; the reconnect ends at the
\* select with a live subscription on the headers channel.
C7_ErrorStartsReconnect ==
    /\ [][(sub # 0 /\ subs[sub].err /\ ~subs'[sub].err) => pc' = "reconnect"]_vars
    /\ [][InReconnect => (delivered' = delivered /\ served' = served)]_vars
    /\ [][(InReconnect /\ ~InReconnect') =>
            (pc' = "select" /\ sub' \in LiveSubs')]_vars

\* C7 witness: after a reconnect a header has been taken from the second
\* subscription.
C7_Witness ==
    /\ Len(subs) = 2
    /\ sub = 2
    /\ pc = "build"
    /\ header > 0

\* C8: every request the service receives has exactly one of TxHashes and
\* RawTransactions non-empty.
C8_ExactlyOneForm ==
    \A k \in 1 .. Len(served) :
       (served[k].req.TxHashes # <<>>) # (served[k].req.RawTransactions # <<>>)

\* C9: SendBid returns success only at end of stream, and what it hands to
\* saveBidResponses is the sequence of records the stream delivered.
C9_DrainsAndHandsOverStream ==
    /\ []((bpc = "ret" /\ bidRet.err = "nil" /\ pc = "api") =>
            (streamEnd = "eof" /\ bidRet.stream /\ responses = streamed))
    /\ [][(bpc = "recv" /\ bpc' = "ret" /\ bidRet'.err = "nil") =>
            (streamEnd' = "eof"
             /\ respTasks' = Append(respTasks, NewResponseTask(streamed)))]_vars
    /\ [][Len(respTasks') > Len(respTasks) =>
            (streamEnd' = "eof"
             /\ respTasks'[Len(respTasks')].responses = streamed)]_vars

\* C9 witness: SendBid has returned success after a stream of two records.
C9_Witness ==
    /\ bpc = "ret"
    /\ bidRet.err = "nil"
    /\ streamEnd = "eof"
    /\ Len(streamed) = 2

RecordsOf(task) == task.existing \o task.responses

\* C10: when the stream fails, SendBid returns an error and no stream, hands
\* nothing to saveBidResponses, and no record of a failed call is ever in the
\* response log or on its way there.
C10_PartialResponsesDiscarded ==
    /\ [](\A c \in failedCalls :
            /\ \A k \in 1 .. Len(respLog) : respLog[k].call # c
            /\ \A t \in 1 .. Len(respTasks) :
                 \A k \in 1 .. Len(RecordsOf(respTasks[t])) :
                    RecordsOf(respTasks[t])[k].call # c)
    /\ [][(bpc = "recv" /\ streamEnd' = "error") =>
            (/\ bpc' = "ret"
             /\ bidRet'.err # "nil"
             /\ ~bidRet'.stream
             /\ respTasks' = respTasks
             /\ respLog' = respLog)]_vars

\* C10 witness: the stream has failed after a record was received.
C10_Witness ==
    /\ bpc = "ret"
    /\ streamEnd = "error"
    /\ Len(responses) >= 1
    /\ bidRet.err # "nil"

\* C11: what SendBid returns, and when, does not depend on the writers of the
\* two log files: wherever the writers stand, the receive loop can take the
\* end of the stream or its error and SendBid can return; no step of a writer
\* changes anything of SendBid; and the result is success exactly when the
\* stream ended with io.EOF.
C11_PersistenceIsolated ==
    /\ [](bpc = "recv" => (ENABLED RecvEOF /\ ENABLED RecvErr))
    /\ []((pc = "api" /\ bpc = "ret") => ENABLED ApiReturn)
    /\ [](bpc = "ret" => ((bidRet.err = "nil") <=> (streamEnd = "eof")))
    /\ [][Persist => UNCHANGED <<bidVars, served, pc, apiCalls>>]_vars

\* C11 witness: SendBid has returned the stream although saveBidRequest ended
\* without writing data/bid.json, and saveBidResponses has not run yet.
C11_Witness ==
    /\ bpc = "ret"
    /\ bidRet.stream
    /\ bidRet.err = "nil"
    /\ reqTasks = <<>>
    /\ bidLog = <<>>
    /\ Len(respTasks) = 1
    /\ respTasks[1].st = "new"

\* C12: once the run-duration timer has fired, the process comes to its end.
\* Any end is counted here, the return from main as well as a panic or a
\* log.Crit exit, so that only a loop that never ends refutes it.
C12_TimerFiredLeadsToEnd == timerFired ~> ~Alive

InHeaderCase == pc \in {"build", "logfee", "bundle", "bid"}

\* C13: main returns on the timer only from the select, with no header in
\* hand and no SendBid call running; the firing of the timer changes nothing
\* of a header's build and bid, which go on until the loop is back at the
\* select.
C13_TimerExitsOnlyFromSelect ==
    /\ [][(pc # "stopped" /\ pc' = "stopped") =>
            (pc = "select" /\ timerFired /\ header = 0 /\ bpc = "idle")]_vars
    /\ [][(timerFired /\ InHeaderCase) =>
            (InHeaderCase' \/ pc' \in {"select", "crashed"})]_vars
    /\ [][timerFired' # timerFired =>
            UNCHANGED <<pc, mainVars, bidVars, served, delivered>>]_vars

\* C13 witness: the timer has fired, and the bid of the header in hand has
\* been submitted and its stream read to the end; the loop has not exited.
C13_Witness ==
    /\ timerFired
    /\ pc = "bid"
    /\ bpc = "ret"
    /\ bidRet.err = "nil"
    /\ streamed # <<>>
    /\ served # <<>>

\* The transaction a bid request is for.
TxOf(req) == <<req.TxHashes, req.RawTransactions>>

\* The bids that reached the service after bid k for the transaction of bid k.
RebidsOf(k) ==
    {j \in (k + 1) .. Len(served) : TxOf(served[j].req) = TxOf(served[k].req)}

\* C14: a transaction bid for with target block T = N + offset and not mined
\* since (the account's nonce has not moved) has been bid for again exactly
\* once by the time the loop has finished with a head beyond T.
C14_UnminedTxRebidOnce ==
    pc = "select" =>
       \A k \in 1 .. Len(served) :
          (\E d \in 1 .. Len(delivered) : delivered[d] > served[k].req.BlockNumber)
             => Cardinality(RebidsOf(k)) = 1

\* C14, for the runs in which every header's bid reached the service: there
\* too an unmined transaction whose target block has passed has been bid for
\* again exactly once.
C14_EveryBidServed ==
    Len(served) = Len(delivered) => C14_UnminedTxRebidOnce

BidFailed == pc = "bid" /\ bpc = "ret" /\ bidRet.err # "nil"

\* C15: when SendBid has returned an error to the loop, the process is alive,
\* the loop's next step takes it back to the select with no header in hand,
\* and no further request is sent for that header; at the select a header
\* waiting on the channel can be taken.
C15_FailedBidAbandoned ==
    /\ [](BidFailed => Alive)
    /\ [][BidFailed => (/\ served' = served
                        /\ calls' = calls
                        /\ (pc' # pc \/ bpc' # bpc) =>
                              (pc' = "select" /\ bpc' = "idle" /\ header' = 0))]_vars
    /\ []((pc = "select" /\ \E s \in LiveSubs : subs[s].buf # <<>>)
            => ENABLED SelectHeader)

\* C15 witness: the second header is in hand after the stream of the first
\* header's bid failed.
C15_Witness ==
    /\ pc = "build"
    /\ header = 2
    /\ delivered = <<1, 2>>
    /\ failedCalls = {1}

DecayWindowOk(req) ==
    /\ req.DecayStartTimestamp \in Times
    /\ req.DecayEndTimestamp > req.DecayStartTimestamp
    /\ req.DecayEndTimestamp - req.DecayStartTimestamp = 36000

\* C16: every bid request the loop has sent, and the one it is sending,
\* starts its decay at the clock reading taken for it and ends it 36000 ms
\* later.
C16_DecayWindow ==
    /\ \A k \in 1 .. Len(served) : DecayWindowOk(served[k].req)
    /\ (pc = "bid" /\ bpc # "idle" /\ bidRequest # NoRequest)
          => DecayWindowOk(bidRequest)

\* C16 witness: a bid request has reached the service and its stream is being
\* read in bundle mode.
C16_Witness ==
    /\ pc = "bid"
    /\ bpc = "recv"
    /\ ~usePayload
    /\ served # <<>>
    /\ served[Len(served)].req = bidRequest
    /\ bidRequest.TxHashes # <<>>

\* C17: every transaction build that succeeds returns a target block number
\* greater than the number of the latest block of the chain at that time.
C17_TargetBlockInFuture ==
    [][(pc = "build" /\ pc' = "logfee" /\ ~signedTx'.isNil)
         => blockNumber' > chainHead]_vars

TransferBuilt == lib.op = "SelfETHTransfer" /\ lib.done

BlobTxBuilt == lib.op = "ExecuteBlobTransaction" /\ lib.done /\ lib.err = "nil"

\* C18: a transaction built by SelfETHTransfer from base fee b has priority
\* fee cap 2b and fee cap 4b, so fee cap >= priority fee cap >= 0; from base
\* fee 100 they are 200 and 400.
C18_FeeCaps ==
    TransferBuilt =>
       /\ lib.tx.GasTipCap = 2 * lib.baseFee
       /\ lib.tx.GasFeeCap = 2 * lib.tx.GasTipCap
       /\ lib.tx.GasFeeCap = 4 * lib.baseFee
       /\ lib.tx.GasFeeCap >= lib.tx.GasTipCap
       /\ lib.tx.GasTipCap >= 0
       /\ lib.baseFee = 100 => (lib.tx.GasTipCap = 200 /\ lib.tx.GasFeeCap = 400)

\* C19: the blob fee cap of a transaction built by ExecuteBlobTransaction from
\* minimum blob fee m >= 1 is greater than m and at least m plus a tenth of
\* m; from m = 1000 it is at least 1100.
C19_BlobFeeCapMargin ==
    BlobTxBuilt =>
       /\ lib.tx.BlobFeeCap > lib.minBlobFee
       /\ 10 * lib.tx.BlobFeeCap >= 11 * lib.minBlobFee
       /\ lib.tx.BlobFeeCap >= lib.minBlobFee + (lib.minBlobFee \div 10)
       /\ lib.minBlobFee = 1000 => lib.tx.BlobFeeCap >= 1100

\* C19 witness: a blob transaction built from the minimum blob fee 1000.
C19_Witness ==
    /\ BlobTxBuilt
    /\ lib.minBlobFee = 1000
    /\ lib.tx.BlobFeeCap = 1101

\* C20: a transaction built by ExecuteBlobTransaction for n >= 1 blobs carries
\* n blobs, n commitments, n proofs and n versioned hashes, the i-th of each
\* computed from the i-th blob.
C20_SidecarPerBlob ==
    (BlobTxBuilt /\ lib.numBlobs >= 1) =>
       LET sc == lib.tx.Sidecar
       IN /\ Len(sc.Blobs) = lib.numBlobs
          /\ Len(sc.Commitments) = lib.numBlobs
          /\ Len(sc.Proofs) = lib.numBlobs
          /\ Len(lib.tx.BlobHashes) = lib.numBlobs
          /\ \A k \in 1 .. lib.numBlobs :
                /\ sc.Commitments[k] = <<"commitment", sc.Blobs[k]>>
                /\ sc.Proofs[k] = <<"proof", sc.Blobs[k], sc.Commitments[k]>>
                /\ lib.tx.BlobHashes[k] = <<"hash", sc.Commitments[k]>>

\* C20 witness: a blob transaction with two different blobs.
C20_Witness ==
    /\ BlobTxBuilt
    /\ lib.numBlobs = 2
    /\ lib.tx.Sidecar.Blobs[1] # lib.tx.Sidecar.Blobs[2]

\* The blobs of the call for which a call of the library failed.
FailedBlobs == {k \in 1 .. Len(lib.kzg) : ~lib.kzg[k].c \/ ~lib.kzg[k].p}

\* C21: when the commitment or the proof of any blob could not be generated,
\* ExecuteBlobTransaction returns an error and no transaction: no transaction
\* it returns has in its sidecar a commitment or a proof of a failed call.
C21_CommitmentFailureAborts ==
    (lib.op = "ExecuteBlobTransaction" /\ lib.done /\ FailedBlobs # {})
       => (lib.err # "nil" /\ lib.tx = NoTx)

\* A required setting is missing from the environment.
SettingMissing ==
    \/ env.WS_ENDPOINT = ""
    \/ env.PRIVATE_KEY = ""
    \/ (env.USE_PAYLOAD \in FalseStrings /\ env.RPC_ENDPOINT = "")

\* USE_PAYLOAD or OFFSET is set to a value that does not parse.
ValueUnparsable ==
    \/ (env.USE_PAYLOAD # <<>> /\ env.USE_PAYLOAD \notin (TrueStrings \cup FalseStrings))
    \/ (env.OFFSET # <<>> /\ \E k \in 1 .. Len(env.OFFSET) :
                                env.OFFSET[k] \notin {"0", "1", "2", "3", "4", "5",
                                                      "6", "7", "8", "9"})

\* No endpoint has been dialed, no subscription opened, no bid submitted.
NothingDialed ==
    /\ bidderClient = 0
    /\ rpc.attempts = 0
    /\ dials = 0
    /\ wsClient = 0
    /\ subs = <<>>
    /\ served = <<>>
    /\ calls = 0

\* C22: in an environment where a required setting is missing or USE_PAYLOAD
\* or OFFSET does not parse, the process ends at the configuration check,
\* and nothing has been dialed, subscribed to or bid by then or ever.
C22_BadConfigIsFatalBeforeDial ==
    /\ []((SettingMissing \/ ValueUnparsable)
            => (pc \in {"config", "fatal"} /\ NothingDialed))
    /\ [][(pc = "config" /\ pc' # "config" /\ (SettingMissing \/ ValueUnparsable))
            => pc' = "fatal"]_vars

\* C22 witness: the process has ended in bundle mode without RPC_ENDPOINT,
\* everything else being set.
C22_Witness ==
    /\ pc = "fatal"
    /\ env.dotenv
    /\ env.USE_PAYLOAD = <<"f", "a", "l", "s", "e">>
    /\ env.RPC_ENDPOINT = ""
    /\ env.WS_ENDPOINT # ""
    /\ env.PRIVATE_KEY = "key"
    /\ env.OFFSET = <<>>
    /\ ~usePayload

RpcReturned == rpc.client # "none"

\* C23: connectRPCClientWithRetries dials at most maxRetries times, sleeps
\* 10 * 2^n after the failed dial of pass n (n from 0), returns the client of
\* the first dial that connects and dials no more, and returns nil exactly
\* when maxRetries dials have failed.
C23_RpcDialBoundedBackoff ==
    /\ [](/\ rpc.attempts <= rpc.maxRetries
          /\ \A n \in 0 .. Len(rpc.sleeps) - 1 : rpc.sleeps[n + 1] = 10 * 2 ^ n
          /\ rpc.client = "connected" => rpc.attempts = Len(rpc.sleeps) + 1
          /\ rpc.client # "connected" => rpc.attempts = Len(rpc.sleeps)
          /\ rpc.client = "nil" => Len(rpc.sleeps) = rpc.maxRetries
          /\ (RpcReturned /\ Len(rpc.sleeps) = rpc.maxRetries)
                => rpc.client = "nil")
    /\ [][RpcReturned => rpc' = rpc]_vars
    /\ [][(pc = "rpcdial" /\ pc' # "rpcdial") => RpcReturned']_vars

\* C23 witness: every dial has failed and nil has been returned after the
\* sleeps 10, 20, 40, 80, 160.
C23_Witness ==
    /\ rpc.client = "nil"
    /\ rpc.attempts = 5
    /\ rpc.sleeps = <<10, 20, 40, 80, 160>>

\* C24: when connectRPCClientWithRetries has returned nil in bundle mode, the
\* loop is never entered and no header is taken.
C24_RpcExhaustionIsFatal ==
    (~usePayload /\ rpc.client = "nil")
       => (pc \notin {"select", "build"} /\ sub = 0 /\ delivered = <<>>)

\* The four values of a request, as the caller names them.
ArgsOf(req) ==
    [amount |-> req.Amount,
     blockNumber |-> req.BlockNumber,
     decayStart |-> req.DecayStartTimestamp,
     decayEnd |-> req.DecayEndTimestamp]

\* C25: the request SendBid sends carries the amount, the block number, the
\* decay start and the decay end it was called with, the request handed to
\* saveBidRequest is that request, and every record of data/bid.json is a
\* request that was sent.
C25_RequestCarriesArguments ==
    /\ [][Len(served') > Len(served) =>
            (/\ lib'.op = "SendBid"
             /\ ArgsOf(served'[Len(served')].req) = lib'.args
             /\ bidRequest' = served'[Len(served')].req
             /\ reqTasks'[Len(reqTasks')].data.bidRequest = served'[Len(served')].req)]_vars
    /\ [](\A r \in 1 .. Len(bidLog) :
            \E k \in 1 .. Len(served) : bidLog[r].bidRequest = served[k].req)

\* C25 witness: the README's example bid has reached the service and is in
\* data/bid.json with the same four values.
C25_Witness ==
    /\ served # <<>>
    /\ ArgsOf(served[1].req) = ExampleBid
    /\ served[1].req.Amount = <<"8", "7", "0", "4", "4", "6", "6", "7", "7", "0",
                                "5", "6", "7", "1", "6", "8">>
    /\ served[1].req.BlockNumber = 2513098
    /\ served[1].req.DecayEndTimestamp - served[1].req.DecayStartTimestamp = 1000
    /\ bidLog # <<>>
    /\ bidLog[1].bidRequest = served[1].req

\* C26: no call of DepositIntoWindow or WithdrawFromWindow, failed or not,
\* changes a field of the account it is given, the transaction options
\* included, and no withdrawal is sent with a value.
C26_AccountImmutable ==
    lib.op = "window" =>
       /\ lib.authAcct = AuthenticateAddress("key")
       /\ \A k \in 1 .. Len(lib.sent) :
             lib.sent[k].method = "withdrawBidderAmountFromWindow"
                => lib.sent[k].value = 0

\* The requests in data/bid.json, in order.
LoggedRequests == [r \in 1 .. Len(bidLog) |-> bidLog[r].bidRequest]

\* C27: when every saveBidRequest goroutine has finished and no file
\* operation has failed, data/bid.json holds one record for each SendBid call
\* that started one, whatever the order of their reads and writes.
C27_RequestLogKeepsEveryCall ==
    (reqTasks = <<>> /\ ioErrors = 0) =>
       /\ Len(bidLog) = calls
       /\ \A k \in 1 .. Len(served) :
             Cardinality({r \in 1 .. Len(bidLog) :
                            LoggedRequests[r] = served[k].req}) >= 1

\* The requests the service has received for header h.
RequestsFor(h) == {k \in 1 .. Len(served) : served[k].hdr = h}

\* C28: the loop enters the build only by taking a header and makes one
\* build attempt for it; a build that succeeded is followed by one SendBid
\* call, which sends at most one request, the one for the header in hand,
\* and after which the header is dropped; so the service has at most one
\* request per delivered header, exactly one once a call's stream is open,
\* and none for a header that was not delivered.
C28_OneBuildOneBidPerHeader ==
    /\ [](/\ \A k \in 1 .. Len(served) :
               \E d \in 1 .. Len(delivered) : delivered[d] = served[k].hdr
          /\ \A d \in 1 .. Len(delivered) :
               Cardinality(RequestsFor(delivered[d])) <= 1
          /\ Len(served) <= Len(delivered)
          /\ InHeaderCase => header = delivered[Len(delivered)]
          /\ (pc = "bid" /\ bpc = "recv") => Cardinality(RequestsFor(header)) = 1)
    /\ [][(pc' = "build" /\ pc # "build") =>
            delivered' = Append(delivered, header')]_vars
    /\ [][delivered' # delivered => (pc' = "build" /\ pc # "build")]_vars
    /\ [][(pc = "build" /\ pc' # "build") =>
            (pc' = "logfee" /\ header' = header)]_vars
    /\ [][(pc = "logfee" /\ pc' # "logfee" /\ ~signedTx.isNil) =>
            (pc' \in {"bid", "bundle"} /\ header' = header)]_vars
    /\ [][(pc = "bundle" /\ pc' # "bundle") =>
            (pc' = "bid" /\ header' = header /\ served' = served)]_vars
    /\ [][(pc = "bid" /\ bpc = "idle" /\ bpc' # "idle") =>
            (/\ pc' = "bid"
             /\ header' = header
             /\ bpc' = "recv" => served' = Append(served, [hdr |-> header,
                                                           req |-> bidRequest'])
             /\ bpc' # "recv" => served' = served)]_vars
    /\ [][(pc = "bid" /\ bpc # "idle") =>
            (/\ served' = served
             /\ pc' # "bid" => (pc' = "select" /\ header' = 0))]_vars
    /\ [][pc \notin {"bid"} => served' = served]_vars

\* The loop's call of SendBid: the step that starts it.
BidStarts == pc = "bid" /\ bpc = "idle" /\ bpc' # "idle"

\* C29: in payload mode SendBundle is never called and every request carries
\* one raw transaction, the hex of the signed transaction's typed envelope,
\* and no hash; in bundle mode SendBundle is called for the signed
\* transaction of the header before SendBid is, and every request carries
\* one hash, that transaction's without "0x", and no raw transaction.
C29_ModeDecidesPayloadForm ==
    /\ [](usePayload =>
            /\ relayed = <<>>
            /\ pc # "bundle"
            /\ \A k \in 1 .. Len(served) :
                  /\ served[k].req.TxHashes = <<>>
                  /\ Len(served[k].req.RawTransactions) = 1
                  /\ SubSeq(served[k].req.RawTransactions[1], 1, 2) = <<"0", "2">>)
    /\ [](~usePayload =>
            \A k \in 1 .. Len(served) :
               /\ served[k].req.RawTransactions = <<>>
               /\ Len(served[k].req.TxHashes) = 1
               /\ SubSeq(served[k].req.TxHashes[1], 1, 2) # <<"0", "x">>
               /\ \E b \in 1 .. Len(relayed) :
                     HashString(relayed[b].signedTx)
                        = <<"0", "x">> \o served[k].req.TxHashes[1])
    /\ [][(BidStarts /\ usePayload /\ bpc' = "recv") =>
            (/\ bidRequest'.RawTransactions
                   = <<EncodeToString(MarshalBinary(signedTx))>>
             /\ bidRequest'.TxHashes = <<>>)]_vars
    /\ [][(BidStarts /\ ~usePayload) =>
            (/\ Len(relayed) = Len(delivered)
             /\ relayed # <<>>
             /\ relayed[Len(relayed)] = [signedTx |-> signedTx, blkNum |-> blockNumber]
             /\ relayed' = relayed
             /\ bidRequest'.RawTransactions = <<>>
             /\ Len(bidRequest'.TxHashes) = 1
             /\ <<"0", "x">> \o bidRequest'.TxHashes[1] = HashString(signedTx))]_vars

\* C29 witness: in bundle mode the loop is back at the select after one
\* header, whose transaction went to SendBundle and whose hash went to the
\* service.
C29_Witness ==
    /\ ~usePayload
    /\ pc = "select"
    /\ Len(relayed) = 1
    /\ Len(served) = 1
    /\ served[1].req.TxHashes = <<SubSeq(HashString(relayed[1].signedTx), 3, 4)>>
    /\ served[1].req.BlockNumber = relayed[1].blkNum

\* C30: a transfer and a blob transaction built from the same base fee have
\* the same priority fee cap, 0 in both or twice the base fee in both.
C30_SameTipPolicy ==
    (lib.op = "both kinds" /\ lib.done) =>
       /\ lib.transfer.GasTipCap = lib.blob.GasTipCap
       /\ lib.transfer.GasTipCap \in {0, 2 * lib.baseFee}

\* C34: SendBundle never panics; when a step fails it returns the empty
\* string with a non-nil error, the failed step being its last; when every
\* step succeeds it returns the response body as it came, with a nil error.
BundleStepFails ==
    \/ ~lib.o.marshal
    \/ ~lib.o.json
    \/ NewRequest(lib.RPCURL, <<>>).err # "nil"
    \/ ~lib.o.do
    \/ ~lib.o.read

BundleLastStep ==
    IF ~lib.o.marshal THEN "MarshalBinary"
    ELSE IF ~lib.o.json THEN "json.Marshal"
    ELSE IF NewRequest(lib.RPCURL, <<>>).err # "nil" THEN "NewRequest"
    ELSE IF ~lib.o.do THEN "Do"
    ELSE "ReadAll"

C34_FailureIsAValue ==
    (lib.op = "SendBundle" /\ lib.done) =>
       /\ ~lib.res.panicked
       /\ lib.res.steps[Len(lib.res.steps)] = BundleLastStep
       /\ IF BundleStepFails
          THEN lib.res.ret = "" /\ lib.res.err # "nil"
          ELSE lib.res.ret = lib.o.body /\ lib.res.err = "nil"

\* C31: in bundle mode the SendBundle call, whether it returns an error or
\* not, is followed by the SendBid call with the hash of the same
\* transaction, and after that call the loop is back at the select.
C31_RelayFailureKeepsBid ==
    /\ [][(pc = "bundle" /\ pc' # "bundle") =>
            (/\ pc' = "bid"
             /\ relayed' = Append(relayed, [signedTx |-> signedTx,
                                            blkNum |-> blockNumber])
             /\ header' = header
             /\ signedTx' = signedTx
             /\ blockNumber' = blockNumber)]_vars
    /\ [][(BidStarts /\ ~usePayload) =>
            (/\ relayed # <<>>
             /\ relayed[Len(relayed)].signedTx = signedTx
             /\ Len(bidRequest'.TxHashes) = 1
             /\ Prefix0x \o bidRequest'.TxHashes[1] = HashString(signedTx)
             /\ bidRequest'.BlockNumber = blockNumber)]_vars
    /\ [][(pc = "bid" /\ pc' # "bid" /\ ~usePayload) => pc' = "select"]_vars

\* C32: saveBidRequest is started once, with the request sent, by the step
\* of a SendBid call that opens the stream, and by no other step: not by a
\* call that returns before the stream is open, and not again whatever the
\* stream does later; saveBidResponses is started only by the step that
\* meets the end of the stream, with the records received, and not by a
\* call whose stream fails.
C32_RequestLoggedOncePerOpenedCall ==
    /\ [][(bpc = "idle" /\ bpc' = "recv") =>
            reqTasks' = Append(reqTasks, NewRequestTask(bidRequest'))]_vars
    /\ [][(bpc = "idle" /\ bpc' = "ret") =>
            (reqTasks' = reqTasks /\ respTasks' = respTasks)]_vars
    /\ [][Len(reqTasks') > Len(reqTasks) => (bpc = "idle" /\ bpc' = "recv")]_vars
    /\ [][Len(respTasks') > Len(respTasks) =>
            (/\ bpc = "recv"
             /\ streamEnd' = "eof"
             /\ bidRet' = [stream |-> TRUE, err |-> "nil"]
             /\ respTasks' = Append(respTasks, NewResponseTask(responses)))]_vars
    /\ [][(bpc = "recv" /\ streamEnd' = "error") =>
            (reqTasks' = reqTasks /\ respTasks' = respTasks)]_vars

\* C32 witness: a call whose stream failed after a record has returned; its
\* request is with saveBidRequest and nothing went to saveBidResponses.
C32_Witness ==
    /\ bpc = "ret"
    /\ streamEnd = "error"
    /\ streamed # <<>>
    /\ bidRet.err # "nil"
    /\ Len(reqTasks) = 1
    /\ reqTasks[1].data.bidRequest = bidRequest
    /\ respTasks = <<>>
    /\ respLog = <<>>

\* C33: the listener opens a log filter for the block number of every header
\* it takes, and the step that handles a log-subscription error takes it
\* back to the outer select, where the next header is received.
C33_ListenerHandlesEveryHeader ==
    /\ [](lib.op = "listen" =>
            \A k \in 1 .. Len(lib.filters) : lib.filters[k] \in 1 .. lib.head)
    /\ [][(lib.op = "listen" /\ lib'.lpc = "logs" /\ lib.lpc = "select") =>
            lib'.filters = Append(lib.filters, Head(lib.queue))]_vars
    /\ [][(lib.op = "listen" /\ lib'.logErrs > lib.logErrs) =>
            lib'.lpc = "select"]_vars

====
